---------------------------- MODULE Spec2Model ----------------------------
(***************************************************************************)
(* Model of the py-snake rendering core (perspective.py, wireframe_cube.py *)
(* and the LowPolySphere of main.py).                                      *)
(*                                                                         *)
(* Numbers.  The code computes with Python floats (IEEE-754 binary64):     *)
(* every arithmetic result is the exact result rounded to the nearest      *)
(* representable value, ties to even.  A float is modelled by the exact    *)
(* number it denotes, <<m, e>> standing for m * 2^e with m odd (zero is    *)
(* <<0, 0>>), and every operation rounds its exact result to MantBits      *)
(* significant bits with the same rule.  binary64 has 53 significant bits; *)
(* the model keeps the rounding rule and lowers the precision so that all  *)
(* intermediate integers stay inside the model checker's integer range.    *)
(* Exponent range (overflow to inf, subnormals) is not modelled.           *)
(***************************************************************************)
EXTENDS Integers, Sequences, FiniteSets, TLC

(* Significant bits of the modelled float format. *)
MantBits == 10

RECURSIVE Pow2(_)
Pow2(k) == IF k <= 0 THEN 1 ELSE 2 * Pow2(k - 1)

(* 2^MantBits and 2^(MantBits-1): a significand m of the format satisfies  *)
(* MantLo <= m < MantHi.                                                   *)
MantHi == Pow2(MantBits)
MantLo == Pow2(MantBits - 1)

Abs(i) == IF i < 0 THEN -i ELSE i
Min(i, j) == IF i <= j THEN i ELSE j
Max(i, j) == IF i >= j THEN i ELSE j

(* Number of binary digits of n > 0. *)
RECURSIVE Bits(_)
Bits(n) == IF n <= 1 THEN 1 ELSE 1 + Bits(n \div 2)

(* The canonical form <<m, e>>, m odd, of n * 2^e; zero is <<0, 0>>. *)
RECURSIVE Canon(_, _)
Canon(n, e) ==
    IF n = 0 THEN <<0, 0>>
    ELSE IF n % 2 = 0 THEN Canon(n \div 2, e + 1)
    ELSE <<n, e>>

(* Scale a/d by powers of two until MantLo <= a/d < MantHi; e follows the  *)
(* binary exponent taken out.  Common factors of two are cancelled rather  *)
(* than multiplied in.                                                     *)
RECURSIVE FlNorm(_, _, _)
FlNorm(a, d, e) ==
    IF a \div MantHi >= d
    THEN IF a % 2 = 0 THEN FlNorm(a \div 2, d, e + 1)
                      ELSE FlNorm(a, 2 * d, e + 1)
    ELSE IF a \div MantLo < d
    THEN IF d % 2 = 0 THEN FlNorm(a, d \div 2, e - 1)
                      ELSE FlNorm(2 * a, d, e - 1)
    ELSE <<a, d, e>>

(* Round-to-nearest, ties-to-even, of the quotient a/d to an integer. *)
RoundHalfEven(a, d) ==
    LET q == a \div d
        r == a % d
    IN  IF 2 * r > d THEN q + 1
        ELSE IF 2 * r < d THEN q
        ELSE q + (q % 2)

(* The float nearest to (n/d) * 2^e, d > 0. *)
RoundRat(n, d, e) ==
    IF n = 0 THEN <<0, 0>>
    ELSE LET t == FlNorm(Abs(n), d, e)
             m == RoundHalfEven(t[1], t[2])
         IN  Canon(IF n < 0 THEN -m ELSE m, t[3])

(* The float nearest to the rational n/d. *)
Fl(n, d) == RoundRat(n, d, 0)

(* A float from a Python number written n/d (int -> float conversion and   *)
(* the parse of a decimal literal both round to nearest).                  *)
Lit(n, d) == Fl(n, d)

IsZero(a) == a[1] = 0

(* Position just above the leading binary digit: 2^(Top-1) <= |a| < 2^Top. *)
Top(a) == Bits(Abs(a[1])) + a[2]

(* b is too small to move the rounded sum a + b away from a. *)
Negligible(b, a) == Top(a) - Top(b) > MantBits + 2

(* The exact sum a + b as an integer multiple of 2^Min(a[2], b[2]). *)
AlignedSum(a, b) ==
    LET e == Min(a[2], b[2])
    IN  a[1] * Pow2(a[2] - e) + b[1] * Pow2(b[2] - e)

(* The operators below take their operands through a one-element set:     *)
(* {F(a) : a \in {x}} evaluates the operand expression x once and hands F  *)
(* its value, where F(x) would evaluate x anew at every use inside F.      *)

(* Python's float operators: the exact result, rounded. *)
FNeg(a) == <<-a[1], a[2]>>
AddOf(a, b) ==
    IF IsZero(a) THEN b
    ELSE IF IsZero(b) THEN a
    ELSE IF Negligible(b, a) THEN a
    ELSE IF Negligible(a, b) THEN b
    ELSE RoundRat(AlignedSum(a, b), 1, Min(a[2], b[2]))
FAdd(x, y) == CHOOSE r \in {AddOf(a, b) : a \in {x}, b \in {y}} : TRUE
FSub(x, y) == CHOOSE r \in {AddOf(a, FNeg(b)) : a \in {x}, b \in {y}} : TRUE
MulOf(a, b) == RoundRat(a[1] * b[1], 1, a[2] + b[2])
FMul(x, y) == CHOOSE r \in {MulOf(a, b) : a \in {x}, b \in {y}} : TRUE
DivOf(a, b) ==
    IF b[1] > 0 THEN RoundRat(a[1], b[1], a[2] - b[2])
    ELSE RoundRat(-a[1], -b[1], a[2] - b[2])
FDiv(x, y) == CHOOSE r \in {DivOf(a, b) : a \in {x}, b \in {y}} : TRUE

(* Comparison of the denoted numbers: -1, 0 or 1. *)
Sign(a) == IF a[1] > 0 THEN 1 ELSE IF a[1] < 0 THEN -1 ELSE 0
CmpAbs(a, b) ==
    IF IsZero(a) \/ IsZero(b) THEN Abs(Sign(a)) - Abs(Sign(b))
    ELSE IF Top(a) # Top(b) THEN (IF Top(a) < Top(b) THEN -1 ELSE 1)
    ELSE LET e == Min(a[2], b[2])
             x == Abs(a[1]) * Pow2(a[2] - e)
             y == Abs(b[1]) * Pow2(b[2] - e)
         IN  IF x < y THEN -1 ELSE IF x > y THEN 1 ELSE 0
Cmp(a, b) ==
    IF Sign(a) # Sign(b) THEN (IF Sign(a) < Sign(b) THEN -1 ELSE 1)
    ELSE Sign(a) * CmpAbs(a, b)
Lt(a, b) == Cmp(a, b) < 0
Le(a, b) == Cmp(a, b) <= 0

(***************************************************************************)
(* math.sqrt: the correctly rounded square root.                           *)
(***************************************************************************)

(* Scale n * 4^q by powers of four until MantHi^2 <= n < 4 * MantHi^2. *)
RECURSIVE SqrtNorm(_, _)
SqrtNorm(n, q) ==
    IF n < MantHi * MantHi THEN SqrtNorm(4 * n, q - 1) ELSE <<n, q>>

(* Largest r in lo..hi-1 with r * r <= v, given lo * lo <= v < hi * hi. *)
RECURSIVE ISqrtBetween(_, _, _)
ISqrtBetween(v, lo, hi) ==
    IF hi - lo <= 1 THEN lo
    ELSE LET mid == (lo + hi) \div 2
         IN  IF mid * mid <= v THEN ISqrtBetween(v, mid, hi)
                               ELSE ISqrtBetween(v, lo, mid)

SqrtOf(a) ==
    IF IsZero(a) THEN <<0, 0>>
    ELSE LET odd == a[2] % 2 = 1
             t == SqrtNorm(IF odd THEN 2 * a[1] ELSE a[1],
                           (IF odd THEN a[2] - 1 ELSE a[2]) \div 2)
             r == ISqrtBetween(t[1], MantHi, 2 * MantHi)
             half == r \div 2
             m == IF r % 2 = 0 THEN half
                  ELSE IF r * r = t[1] THEN half + (half % 2)
                  ELSE half + 1
         IN  Canon(m, t[2] + 1)
FSqrt(x) == CHOOSE r \in {SqrtOf(a) : a \in {x}} : TRUE

(***************************************************************************)
(* math.radians, math.cos, math.sin.  The C library's functions are        *)
(* modelled by what such a library does: reduce the argument by the        *)
(* nearest multiple of pi/2 and evaluate a short polynomial on the         *)
(* remainder, all in float arithmetic.                                     *)
(***************************************************************************)
PiOver180 == Lit(17453, 1000000)
HalfPi == Lit(15708, 10000)

radians(x) == FMul(x, PiOver180)

(* The integer nearest to a. *)
NearestInt(a) ==
    IF IsZero(a) \/ Top(a) < -1 THEN 0
    ELSE IF a[2] >= 0 THEN a[1] * Pow2(a[2])
    ELSE Sign(a) * RoundHalfEven(Abs(a[1]), Pow2(-a[2]))

(* cos on the reduced argument: 1 - r^2/2 + r^4/24 - r^6/720. *)
CosSeries(r2) ==
    FAdd(Lit(1, 1),
         FMul(r2, FAdd(Lit(-1, 2),
                       FMul(r2, FAdd(Lit(1, 24), FMul(r2, Lit(-1, 720)))))))
CosPoly(r) == CHOOSE c \in {CosSeries(r2) : r2 \in {FMul(r, r)}} : TRUE

(* sin on the reduced argument: r - r^3/6 + r^5/120 - r^7/5040. *)
SinSeries(r, r2) ==
    FMul(r, FAdd(Lit(1, 1),
                 FMul(r2, FAdd(Lit(-1, 6),
                               FMul(r2, FAdd(Lit(1, 120),
                                             FMul(r2, Lit(-1, 5040))))))))
SinPoly(x) == CHOOSE c \in {SinSeries(r, r2) : r \in {x}, r2 \in {FMul(x, x)}} : TRUE

(* The multiple k of pi/2 nearest to x, and the remainder x - k * pi/2. *)
Quadrant(x) == NearestInt(FDiv(x, HalfPi))
Reduced(x, k) == FSub(x, FMul(Lit(k, 1), HalfPi))

CosOf(r, k) ==
    IF k % 4 = 0 THEN CosPoly(r)
    ELSE IF k % 4 = 1 THEN FNeg(SinPoly(r))
    ELSE IF k % 4 = 2 THEN FNeg(CosPoly(r))
    ELSE SinPoly(r)
cos(x) == CHOOSE c \in {CosOf(Reduced(a, k), k) : a \in {x}, k \in {Quadrant(x)}} : TRUE

SinOf(r, k) ==
    IF k % 4 = 0 THEN SinPoly(r)
    ELSE IF k % 4 = 1 THEN CosPoly(r)
    ELSE IF k % 4 = 2 THEN FNeg(SinPoly(r))
    ELSE FNeg(CosPoly(r))
sin(x) == CHOOSE c \in {SinOf(Reduced(a, k), k) : a \in {x}, k \in {Quadrant(x)}} : TRUE

(* Python's None. *)
None == <<>>

(* A call's outcome: a returned value, or a raised exception. *)
Returned(v) == [raised |-> FALSE, value |-> v]
ZeroDivisionError == [raised |-> TRUE, value |-> <<>>]

(***************************************************************************)
(* perspective.py                                                          *)
(***************************************************************************)

(* PerspectiveCamera.__init__ with the "or" idiom: an override of 0 is     *)
(* taken for a missing one.                                                *)
PerspectiveCamera_FalsyDefault(screen_width, screen_height, vanishing_point_x, vanishing_point_y, perspective_strength) ==
    [screen_width |-> screen_width,
     screen_height |-> screen_height,
     vp_x |-> IF vanishing_point_x # None /\ ~IsZero(vanishing_point_x)
              THEN vanishing_point_x
              ELSE FDiv(Lit(screen_width, 1), Lit(2, 1)),
     vp_y |-> IF vanishing_point_y # None /\ ~IsZero(vanishing_point_y)
              THEN vanishing_point_y
              ELSE FMul(Lit(screen_height, 1), Lit(3, 4)),
     perspective_strength |-> perspective_strength]

(* PerspectiveCamera.__init__ *)
PerspectiveCamera(screen_width, screen_height, vanishing_point_x, vanishing_point_y, perspective_strength) ==
    [screen_width |-> screen_width,
     screen_height |-> screen_height,
     vp_x |-> IF vanishing_point_x # None
              THEN vanishing_point_x
              ELSE FDiv(Lit(screen_width, 1), Lit(2, 1)),
     vp_y |-> IF vanishing_point_y # None
              THEN vanishing_point_y
              ELSE FMul(Lit(screen_height, 1), Lit(3, 4)),
     perspective_strength |-> perspective_strength]

(* project_3d_to_2d with the denominator the comment at its head describes *)
(* ("Add 1 to avoid division by zero").                                    *)
project_3d_to_2d_AddOne(self, x, y, z) ==
    LET denominator == FAdd(FAdd(self.perspective_strength, z), Lit(1, 1))
    IN  IF IsZero(denominator) THEN ZeroDivisionError
        ELSE LET perspective_factor ==
                     FDiv(self.perspective_strength, denominator)
                 screen_x == FAdd(self.vp_x,
                                  FMul(FSub(x, self.vp_x), perspective_factor))
                 screen_y == FAdd(self.vp_y,
                                  FMul(FSub(y, self.vp_y), perspective_factor))
             IN  Returned(<<screen_x, screen_y>>)

(* project_3d_to_2d with both coordinates pulled toward vp_x. *)
project_3d_to_2d_WrongAxis(self, x, y, z) ==
    LET denominator == FAdd(self.perspective_strength, z)
    IN  IF IsZero(denominator) THEN ZeroDivisionError
        ELSE LET perspective_factor ==
                     FDiv(self.perspective_strength, denominator)
                 screen_x == FAdd(self.vp_x,
                                  FMul(FSub(x, self.vp_x), perspective_factor))
                 screen_y == FAdd(self.vp_x,
                                  FMul(FSub(y, self.vp_x), perspective_factor))
             IN  Returned(<<screen_x, screen_y>>)

(* project_3d_to_2d with the depth's sign slipped in the denominator. *)
project_3d_to_2d_MinusZ(self, x, y, z) ==
    LET denominator == FSub(self.perspective_strength, z)
    IN  IF IsZero(denominator) THEN ZeroDivisionError
        ELSE LET perspective_factor ==
                     FDiv(self.perspective_strength, denominator)
                 screen_x == FAdd(self.vp_x,
                                  FMul(FSub(x, self.vp_x), perspective_factor))
                 screen_y == FAdd(self.vp_y,
                                  FMul(FSub(y, self.vp_y), perspective_factor))
             IN  Returned(<<screen_x, screen_y>>)

(* PerspectiveCamera.project_3d_to_2d.  Python's float division raises     *)
(* ZeroDivisionError on a zero divisor.                                    *)
project_3d_to_2d(self, x, y, z) ==
    LET denominator == FAdd(self.perspective_strength, z)
    IN  IF IsZero(denominator) THEN ZeroDivisionError
        ELSE LET perspective_factor ==
                     FDiv(self.perspective_strength, denominator)
                 screen_x == FAdd(self.vp_x,
                                  FMul(FSub(x, self.vp_x), perspective_factor))
                 screen_y == FAdd(self.vp_y,
                                  FMul(FSub(y, self.vp_y), perspective_factor))
             IN  Returned(<<screen_x, screen_y>>)

(* The list comprehension of project_points, left to right from index i;   *)
(* an exception in one element ends the whole call.                        *)
RECURSIVE project_points_from(_, _, _, _)
project_points_from(self, points_3d, i, acc) ==
    IF i > Len(points_3d) THEN Returned(acc)
    ELSE LET r == project_3d_to_2d(self, points_3d[i][1], points_3d[i][2],
                                   points_3d[i][3])
         IN  IF r.raised THEN r
             ELSE project_points_from(self, points_3d, i + 1,
                                      Append(acc, r.value))

(* project_points that builds its result back to front. *)
RECURSIVE project_points_backwards(_, _, _, _)
project_points_backwards(self, points_3d, i, acc) ==
    IF i > Len(points_3d) THEN Returned(acc)
    ELSE LET r == project_3d_to_2d(self, points_3d[i][1], points_3d[i][2],
                                   points_3d[i][3])
         IN  IF r.raised THEN r
             ELSE project_points_backwards(self, points_3d, i + 1,
                                           <<r.value>> \o acc)

project_points_Reversed(self, points_3d) ==
    project_points_backwards(self, points_3d, 1, <<>>)

(* PerspectiveCamera.project_points *)
project_points(self, points_3d) == project_points_from(self, points_3d, 1, <<>>)

(***************************************************************************)
(* wireframe_cube.py                                                       *)
(***************************************************************************)

(* WireframeCube.UNIT_CUBE_VERTICES; Python index i is position i + 1. *)
UNIT_CUBE_VERTICES ==
    << <<-1, -1, -1>>, <<1, -1, -1>>, <<1, 1, -1>>, <<-1, 1, -1>>,
       <<-1, -1, 1>>, <<1, -1, 1>>, <<1, 1, 1>>, <<-1, 1, 1>> >>

(* EDGES with one connector joining a back corner to the wrong front one. *)
EDGES_CrossedConnector ==
    << <<0, 1>>, <<1, 2>>, <<2, 3>>, <<3, 0>>,
       <<4, 5>>, <<5, 6>>, <<6, 7>>, <<7, 4>>,
       <<0, 4>>, <<1, 5>>, <<2, 7>>, <<3, 6>> >>

(* WireframeCube.EDGES *)
EDGES ==
    << <<0, 1>>, <<1, 2>>, <<2, 3>>, <<3, 0>>,
       <<4, 5>>, <<5, 6>>, <<6, 7>>, <<7, 4>>,
       <<0, 4>>, <<1, 5>>, <<2, 6>>, <<3, 7>> >>

(* WireframeCube._calculate_world_vertices *)
WireframeCube_calculate_world_vertices(self) ==
    LET px == self.position[1]
        py == self.position[2]
        pz == self.position[3]
        half_size == FDiv(self.size, Lit(2, 1))
    IN  [i \in 1..Len(UNIT_CUBE_VERTICES) |->
            <<FAdd(px, FMul(Lit(UNIT_CUBE_VERTICES[i][1], 1), half_size)),
              FAdd(py, FMul(Lit(UNIT_CUBE_VERTICES[i][2], 1), half_size)),
              FAdd(pz, FMul(Lit(UNIT_CUBE_VERTICES[i][3], 1), half_size))>>]

(* WireframeCube.__init__ *)
WireframeCube(position_3d, size) ==
    [kind |-> "WireframeCube",
     position |-> position_3d,
     size |-> size,
     vertices_3d |-> WireframeCube_calculate_world_vertices(
                         [position |-> position_3d, size |-> size])]

(* update_position that patches the cached vertices by the position delta  *)
(* instead of recomputing them.                                            *)
WireframeCube_update_position_Incremental(self, new_position) ==
    [self EXCEPT
        !.position = new_position,
        !.vertices_3d =
            [i \in 1..Len(self.vertices_3d) |->
                [k \in 1..3 |->
                    FAdd(self.vertices_3d[i][k],
                         FSub(new_position[k], self.position[k]))]]]

(* WireframeCube.update_position *)
WireframeCube_update_position(self, new_position) ==
    [self EXCEPT
        !.position = new_position,
        !.vertices_3d = WireframeCube_calculate_world_vertices(
                            [self EXCEPT !.position = new_position])]

(***************************************************************************)
(* main.py: LowPolySphere                                                  *)
(***************************************************************************)

(* Python's float %: math.fmod (exact, sign of the dividend), then the     *)
(* divisor b > 0 is added to a negative remainder.                         *)
ModOf(a, b) ==
    LET e == Min(a[2], b[2])
        r == IF CmpAbs(a, b) < 0 THEN a
             ELSE Canon(Sign(a) * ((Abs(a[1]) * Pow2(a[2] - e))
                                       % (b[1] * Pow2(b[2] - e))), e)
    IN  IF Sign(r) < 0 THEN FAdd(r, b) ELSE r
FMod(x, y) == CHOOSE r \in {ModOf(a, b) : a \in {x}, b \in {y}} : TRUE

(* The division of a vertex by its length, in _generate_icosahedron's loop. *)
LowPolySphere_normalized(vertex) ==
    CHOOSE n \in
        {<<FDiv(v[1], length), FDiv(v[2], length), FDiv(v[3], length)>> :
            v \in {vertex},
            length \in {FSqrt(FAdd(FAdd(FMul(vertex[1], vertex[1]),
                                        FMul(vertex[2], vertex[2])),
                                   FMul(vertex[3], vertex[3])))}} : TRUE

(* The twelve vertices before normalisation, phi being the golden ratio. *)
LowPolySphere_icosahedron_vertices(phi) ==
    LET one == Lit(1, 1)
        zero == Lit(0, 1)
    IN  << <<FNeg(one), phi, zero>>, <<one, phi, zero>>,
           <<FNeg(one), FNeg(phi), zero>>, <<one, FNeg(phi), zero>>,
           <<zero, FNeg(one), phi>>, <<zero, one, phi>>,
           <<zero, FNeg(one), FNeg(phi)>>, <<zero, one, FNeg(phi)>>,
           <<phi, zero, FNeg(one)>>, <<phi, zero, one>>,
           <<FNeg(phi), zero, FNeg(one)>>, <<FNeg(phi), zero, one>> >>

(* LowPolySphere._generate_icosahedron *)
LowPolySphere_generate_icosahedron ==
    CHOOSE normalized \in
        {[i \in 1..Len(vertices) |-> LowPolySphere_normalized(vertices[i])] :
            vertices \in
                {LowPolySphere_icosahedron_vertices(phi) :
                    phi \in {FDiv(FAdd(Lit(1, 1), FSqrt(Lit(5, 1))),
                                  Lit(2, 1))}}} : TRUE

(* LowPolySphere._generate_edges *)
LowPolySphere_generate_edges ==
    << <<0, 11>>, <<0, 5>>, <<0, 1>>, <<0, 7>>, <<0, 10>>,
       <<1, 5>>, <<5, 9>>, <<11, 5>>, <<11, 4>>, <<11, 10>>,
       <<2, 3>>, <<2, 4>>, <<2, 6>>, <<2, 10>>, <<2, 11>>,
       <<1, 7>>, <<1, 9>>, <<3, 9>>, <<3, 4>>, <<3, 6>>,
       <<4, 9>>, <<6, 7>>, <<6, 8>>, <<6, 10>>, <<7, 8>>,
       <<7, 10>>, <<8, 9>>, <<8, 3>>, <<9, 5>>, <<4, 5>> >>

(* LowPolySphere._rotate_y *)
LowPolySphere_rotate_y(point, angle_deg) ==
    CHOOSE rotated \in
        {<<FAdd(FMul(p[1], cos_a), FMul(p[3], sin_a)),
           p[2],
           FAdd(FMul(FNeg(p[1]), sin_a), FMul(p[3], cos_a))>> :
            p \in {point},
            cos_a \in {cos(radians(angle_deg))},
            sin_a \in {sin(radians(angle_deg))}} : TRUE

(* One world vertex of _calculate_world_vertices: r is the rotated vertex. *)
LowPolySphere_world_vertex(self, r) ==
    <<FAdd(self.position[1], FMul(r[1], self.size)),
      FAdd(self.position[2], FMul(r[2], self.size)),
      FAdd(self.position[3], FMul(r[3], self.size))>>

(* _calculate_world_vertices whose loop stops one vertex short. *)
LowPolySphere_calculate_world_vertices_OneShort(self) ==
    [i \in 1..(Len(self.base_vertices) - 1) |->
        CHOOSE w \in
            {LowPolySphere_world_vertex(self, r) :
                r \in {LowPolySphere_rotate_y(self.base_vertices[i],
                                              self.rotation_angle)}} : TRUE]

(* LowPolySphere._calculate_world_vertices *)
LowPolySphere_calculate_world_vertices(self) ==
    [i \in 1..Len(self.base_vertices) |->
        CHOOSE w \in
            {LowPolySphere_world_vertex(self, r) :
                r \in {LowPolySphere_rotate_y(self.base_vertices[i],
                                              self.rotation_angle)}} : TRUE]

(* The fields __init__ sets before it computes the world vertices. *)
LowPolySphere_fields(position_3d, size, base) ==
    [kind |-> "LowPolySphere",
     position |-> position_3d,
     size |-> size,
     rotation_angle |-> Lit(0, 1),
     rotation_speed |-> Lit(10, 1),
     base_vertices |-> base,
     vertices_3d |-> <<>>,
     edges |-> LowPolySphere_generate_edges]

(* LowPolySphere.__init__ *)
LowPolySphere(position_3d, size) ==
    CHOOSE sphere \in
        {[self EXCEPT
            !.vertices_3d = LowPolySphere_calculate_world_vertices(self)] :
            self \in
                {LowPolySphere_fields(position_3d, size, base) :
                    base \in {LowPolySphere_generate_icosahedron}}} : TRUE

(* update that adds rotation_speed * dt without wrapping at 360. *)
LowPolySphere_update_NoWrap(self, dt) ==
    CHOOSE sphere \in
        {[turned EXCEPT
            !.vertices_3d = LowPolySphere_calculate_world_vertices(turned)] :
            turned \in
                {[self EXCEPT !.rotation_angle =
                    FAdd(self.rotation_angle,
                         FMul(self.rotation_speed, dt))]}} : TRUE

(* LowPolySphere.update *)
LowPolySphere_update(self, dt) ==
    CHOOSE sphere \in
        {[turned EXCEPT
            !.vertices_3d = LowPolySphere_calculate_world_vertices(turned)] :
            turned \in
                {[self EXCEPT !.rotation_angle =
                    FMod(FAdd(self.rotation_angle,
                              FMul(self.rotation_speed, dt)),
                         Lit(360, 1))]}} : TRUE

(* LowPolySphere.update_position *)
LowPolySphere_update_position(self, new_position) ==
    CHOOSE sphere \in
        {[moved EXCEPT
            !.vertices_3d = LowPolySphere_calculate_world_vertices(moved)] :
            moved \in {[self EXCEPT !.position = new_position]}} : TRUE

(***************************************************************************)
(* render, of WireframeCube and of LowPolySphere: the same loop over the   *)
(* solid's edge table.  The result is the list of pygame.draw commands     *)
(* issued, or the error project_points raised before any was issued.       *)
(***************************************************************************)

(* pygame.draw.aaline(surface, color, p1, p2) *)
aaline(color, p1, p2) ==
    [fn |-> "aaline", color |-> color, p1 |-> p1, p2 |-> p2, width |-> 1]
(* pygame.draw.line(surface, color, p1, p2, line_width) *)
line(color, p1, p2, line_width) ==
    [fn |-> "line", color |-> color, p1 |-> p1, p2 |-> p2,
     width |-> line_width]

(* One pass of the loop: edge i of the table.  Python index v is position  *)
(* v + 1 of vertices_2d.                                                   *)
render_edge(vertices_2d, edge, color, line_width) ==
    IF line_width = 1
    THEN aaline(color, vertices_2d[edge[1] + 1], vertices_2d[edge[2] + 1])
    ELSE line(color, vertices_2d[edge[1] + 1], vertices_2d[edge[2] + 1],
              line_width)

(* The loop drawing every edge but the last of the table. *)
render_edges_SkipLast(edges, vertices_2d, color, line_width) ==
    [i \in 1..(Len(edges) - 1) |->
        render_edge(vertices_2d, edges[i], color, line_width)]

(* The for loop of render over the edge table. *)
render_edges(edges, vertices_2d, color, line_width) ==
    [i \in 1..Len(edges) |->
        render_edge(vertices_2d, edges[i], color, line_width)]

(* The body of render after the projection of the vertices. *)
render_projected(edges, projected, color, line_width) ==
    IF projected.raised THEN projected
    ELSE Returned(render_edges(edges, projected.value, color, line_width))

(* WireframeCube.render *)
WireframeCube_render(self, cam, color, line_width) ==
    CHOOSE out \in
        {render_projected(EDGES, projected, color, line_width) :
            projected \in {project_points(cam, self.vertices_3d)}} : TRUE

(* LowPolySphere.render *)
LowPolySphere_render(self, cam, color, line_width) ==
    CHOOSE out \in
        {render_projected(self.edges, projected, color, line_width) :
            projected \in {project_points(cam, self.vertices_3d)}} : TRUE

(***************************************************************************)
(* color_system.py                                                         *)
(***************************************************************************)

(* int(x) of a float: truncation toward zero. *)
int(a) ==
    IF a[2] >= 0 THEN a[1] * Pow2(a[2])
    ELSE Sign(a) * (Abs(a[1]) \div Pow2(-a[2]))

(* The six returns of colorsys.hsv_to_rgb, chosen by i = int(h * 6) % 6. *)
hsv_sector(i, v, p, q, t) ==
    IF i = 0 THEN <<v, t, p>>
    ELSE IF i = 1 THEN <<q, v, p>>
    ELSE IF i = 2 THEN <<p, v, t>>
    ELSE IF i = 3 THEN <<p, q, v>>
    ELSE IF i = 4 THEN <<t, p, v>>
    ELSE <<v, p, q>>

(* colorsys.hsv_to_rgb after i = int(h * 6.0) and f = h * 6.0 - i. *)
hsv_blend(i, f, s, v) ==
    hsv_sector(i % 6, v,
               FMul(v, FSub(Lit(1, 1), s)),
               FMul(v, FSub(Lit(1, 1), FMul(s, f))),
               FMul(v, FSub(Lit(1, 1), FMul(s, FSub(Lit(1, 1), f)))))

(* colorsys.hsv_to_rgb of the standard library. *)
hsv_to_rgb(h, s, v) ==
    IF IsZero(s) THEN <<v, v, v>>
    ELSE CHOOSE rgb \in
             {hsv_blend(i, f, s, v) :
                 i \in {int(FMul(h, Lit(6, 1)))},
                 f \in {FSub(FMul(h, Lit(6, 1)),
                             Lit(int(FMul(h, Lit(6, 1))), 1))}} : TRUE

(* The conversion to channels with a scale of 1000 in place of 255. *)
rgb255_Scale1000(rgb) ==
    CHOOSE c \in
        {<<int(FMul(c3[1], Lit(1000, 1))), int(FMul(c3[2], Lit(1000, 1))),
           int(FMul(c3[3], Lit(1000, 1)))>> : c3 \in {rgb}} : TRUE

(* (int(r * 255), int(g * 255), int(b * 255)) *)
rgb255(rgb) ==
    CHOOSE c \in
        {<<int(FMul(c3[1], Lit(255, 1))), int(FMul(c3[2], Lit(255, 1))),
           int(FMul(c3[3], Lit(255, 1)))>> : c3 \in {rgb}} : TRUE

(* ColorEvolution.__init__; now is what time.time() returns. *)
ColorEvolution(cycle_duration, now) ==
    [cycle_duration |-> cycle_duration, start_time |-> now]

(* get_master_hue that reads the clock as it stood at construction. *)
ColorEvolution_get_master_hue_Frozen(self, now) ==
    FMod(FDiv(FSub(self.start_time, self.start_time), self.cycle_duration),
         Lit(1, 1))

(* ColorEvolution.get_master_hue *)
ColorEvolution_get_master_hue(self, now) ==
    FMod(FDiv(FSub(now, self.start_time), self.cycle_duration), Lit(1, 1))

(* The hue each colour getter hands to hsv_to_rgb. *)
ColorEvolution_snake_hue(self, now) == ColorEvolution_get_master_hue(self, now)
(* The apple's hue without the offset of a third of a turn. *)
ColorEvolution_apple_hue_NoOffset(self, now) ==
    FMod(ColorEvolution_get_master_hue(self, now), Lit(1, 1))
ColorEvolution_apple_hue(self, now) ==
    FMod(FAdd(ColorEvolution_get_master_hue(self, now), Lit(333, 1000)),
         Lit(1, 1))
ColorEvolution_grid_hue(self, now) == ColorEvolution_get_master_hue(self, now)
ColorEvolution_ui_hue(self, now) == ColorEvolution_get_master_hue(self, now)

(* ColorEvolution.get_snake_color *)
ColorEvolution_get_snake_color(self, now) ==
    rgb255(hsv_to_rgb(ColorEvolution_snake_hue(self, now),
                      Lit(8, 10), Lit(9, 10)))

(* ColorEvolution.get_apple_color *)
ColorEvolution_get_apple_color(self, now) ==
    rgb255(hsv_to_rgb(ColorEvolution_apple_hue(self, now),
                      Lit(9, 10), Lit(95, 100)))

(* ColorEvolution.get_grid_color *)
ColorEvolution_get_grid_color(self, now) ==
    rgb255(hsv_to_rgb(ColorEvolution_grid_hue(self, now),
                      Lit(3, 10), Lit(5, 10)))

(* ColorEvolution.get_ui_color *)
ColorEvolution_get_ui_color(self, now) ==
    rgb255(hsv_to_rgb(ColorEvolution_ui_hue(self, now),
                      Lit(2, 10), Lit(95, 100)))

(***************************************************************************)
(* Inputs of the camera specification.                                     *)
(***************************************************************************)

(* Longest list handed to project_points. *)
MaxPoints == 2

ScreenSizes == {<<800, 600>>}
VanishingPointChoices == {None, Lit(0, 1)}
Strengths == {Lit(300, 1), Lit(100, 1)}

(* (x, y) of the points projected: off the pixel grid, the test suite's    *)
(* points, and the default vanishing point itself.                         *)
PointsXY == {<<Lit(1, 10), Lit(1, 10)>>, <<Lit(400, 1), Lit(300, 1)>>,
             <<Lit(600, 1), Lit(200, 1)>>, <<Lit(400, 1), Lit(450, 1)>>}
Depths == {Lit(-700, 1), Lit(-500, 1), Lit(-300, 1), Lit(-100, 1), Lit(0, 1),
           Lit(1, 10), Lit(100, 1), Lit(300, 1)}

BatchPoints == {<<Lit(400, 1), Lit(300, 1), Lit(0, 1)>>,
                <<Lit(600, 1), Lit(200, 1), Lit(100, 1)>>,
                <<Lit(600, 1), Lit(200, 1), Lit(-300, 1)>>}

RECURSIVE SeqsUpTo(_, _)
SeqsUpTo(S, n) ==
    IF n = 0 THEN {<<>>}
    ELSE LET shorter == SeqsUpTo(S, n - 1)
         IN  shorter \cup {Append(q, e) : q \in shorter, e \in S}

(***************************************************************************)
(* Inputs of the solid specification.                                      *)
(***************************************************************************)
CubePositions ==
    {<<Lit(400, 1), Lit(300, 1), Lit(0, 1)>>,
     <<Lit(500, 1), Lit(400, 1), Lit(50, 1)>>,
     <<Lit(1, 10), Lit(1, 10), Lit(0, 1)>>,
     <<Lit(3, 10), Lit(7, 10), Lit(5, 1)>>}
CubeSizes == {Lit(20, 1)}
SpherePositions ==
    {<<Lit(600, 1), Lit(200, 1), Lit(0, 1)>>,
     <<Lit(420, 1), Lit(300, 1), Lit(0, 1)>>}
SphereSizes == {Lit(18, 1)}
(* Frame times handed to update, in seconds. *)
Dts == {Lit(1, 1), Lit(9, 1)}
(* Colours and line widths handed to render. *)
RenderColors == {<<255, 0, 0>>, <<0, 128, 255>>}
LineWidths == {1, 2}

(***************************************************************************)
(* Inputs of the colour specification.                                     *)
(***************************************************************************)
(* Longest time followed after construction, in seconds. *)
MaxElapsed == 8
(* The default cycle, a short one, and one of a whole day. *)
CycleDurations == {Lit(60, 1), Lit(8, 1), Lit(86400, 1)}
(* Seconds the clock advances between two looks at it. *)
ClockSteps == {1, 3}

VARIABLES
    camera,      \* the PerspectiveCamera instance
    ctor_args,   \* the arguments its constructor was called with
    call,        \* the last method call on it: name, arguments, outcome
    solid,       \* a wireframe solid: a WireframeCube or a LowPolySphere
    solid_call,  \* the last call on the solid: name, arguments, the solid before
    drawn,       \* the draw commands the last call on the solid issued
    color_system, \* the ColorEvolution instance
    clock,       \* the system clock, in whole seconds: what time.time() reads
    color_call,  \* the last getter call: name, clock, hue used, result
    hue_log,     \* the sample of the call before, when both were get_master_hue
    snake,       \* the Snake instance of main.py
    snake_call,  \* the last call on it: name, argument, the snake before,
                 \* and the moves and grow calls made since the last reset
    plain_snake, \* a Snake instance of snake_game.py on its own
    game,        \* the Game instance of main.py (its snake is in snake)
    manager,     \* the GameManager instance of snake_game.py
    loop,        \* the run() loop of the game: the call it is at, the frame
                 \* time it measures, the running flag, the frames completed
    trail,       \* the steps of Game.state during the last call of
                 \* handle_input or update: state before, cause, state after
    files,       \* source.json and project.json on disk: the specs in each
    cascade      \* the last run of enforce_cascade_invalidation.py: its
                 \* arguments, the files it loaded, what it did

cameraVars == <<camera, ctor_args, call>>
solidVars == <<solid, solid_call, drawn>>
colorVars == <<color_system, clock, color_call, hue_log>>
snakeVars == <<snake, snake_call, plain_snake>>
gameVars == <<game, manager, loop, trail>>
cascadeVars == <<files, cascade>>
vars == <<cameraVars, solidVars, colorVars, snakeVars, gameVars, cascadeVars>>

(* What an action on one object leaves alone: every other object. *)
notCamera == <<solidVars, colorVars, snakeVars, gameVars, cascadeVars>>
notSolid == <<cameraVars, colorVars, snakeVars, gameVars, cascadeVars>>
notColor == <<cameraVars, solidVars, snakeVars, gameVars, cascadeVars>>
notSnake == <<cameraVars, solidVars, colorVars, gameVars, cascadeVars>>
notGame == <<cameraVars, solidVars, colorVars, cascadeVars>>
notCascade == <<cameraVars, solidVars, colorVars, snakeVars, gameVars>>

NoCall == [op |-> "__init__", args |-> <<>>, ret |-> Returned(<<>>)]
NoSolid == [kind |-> "none"]
NoSolidCall == [op |-> "none", args |-> <<>>, before |-> NoSolid]
(* The call drew nothing. *)
Blank == Returned(<<>>)
NoSolids == solid = NoSolid /\ solid_call = NoSolidCall /\ drawn = Blank

(* The clock reading at which the colour system is constructed. *)
Epoch == 1000
NoColorCall == [op |-> "none", at |-> Epoch, hue |-> None, ret |-> None]
NoColors ==
    /\ color_system = None
    /\ clock = Epoch
    /\ color_call = NoColorCall
    /\ hue_log = <<>>

NoSnakeCall ==
    [op |-> "none", args |-> <<>>, before |-> None, moves |-> 0, grows |-> 0]
NoLoop == [at |-> "none", dt |-> None, running |-> FALSE, frames |-> 0]
NoCascade == files = None /\ cascade = None
NoGames ==
    game = None /\ manager = None /\ loop = NoLoop /\ trail = <<>> /\ NoCascade
NoSnakes ==
    /\ snake = None
    /\ plain_snake = None
    /\ snake_call = NoSnakeCall
    /\ NoGames

(* The camera every game and test constructs: PerspectiveCamera(800, 600). *)
InitDefaultCamera ==
    /\ ctor_args = <<800, 600, None, None, Lit(300, 1)>>
    /\ camera = PerspectiveCamera(800, 600, None, None, Lit(300, 1))
    /\ call = NoCall

(***************************************************************************)
(* The camera on its own: constructed with any of the argument choices,    *)
(* then projecting points.                                                 *)
(***************************************************************************)
InitCamera ==
    /\ \E size \in ScreenSizes, vx \in VanishingPointChoices,
          vy \in VanishingPointChoices, s \in Strengths :
           /\ ctor_args = <<size[1], size[2], vx, vy, s>>
           /\ camera = PerspectiveCamera(size[1], size[2], vx, vy, s)
           /\ call = NoCall
    /\ NoSolids
    /\ NoColors
    /\ NoSnakes

Project3dTo2d ==
    /\ \E p \in PointsXY, z \in Depths :
           call' = [op |-> "project_3d_to_2d", args |-> <<p[1], p[2], z>>,
                    ret |-> project_3d_to_2d(camera, p[1], p[2], z)]
    /\ UNCHANGED <<camera, ctor_args, notCamera>>

ProjectPoints ==
    /\ \E points_3d \in SeqsUpTo(BatchPoints, MaxPoints) :
           call' = [op |-> "project_points", args |-> points_3d,
                    ret |-> project_points(camera, points_3d)]
    /\ UNCHANGED <<camera, ctor_args, notCamera>>

NextCamera == Project3dTo2d \/ ProjectPoints

SpecCamera == InitCamera /\ [][NextCamera]_vars

(***************************************************************************)
(* A solid on its own: constructed as a cube or as an icosahedron, then    *)
(* moved and (the icosahedron) turned.                                     *)
(***************************************************************************)
InitSolid ==
    /\ InitDefaultCamera
    /\ drawn = Blank
    /\ NoColors
    /\ NoSnakes
    /\ \/ \E position_3d \in CubePositions, size \in CubeSizes :
              /\ solid = WireframeCube(position_3d, size)
              /\ solid_call = [op |-> "__init__", args |-> <<position_3d, size>>,
                               before |-> NoSolid]
       \/ \E position_3d \in SpherePositions, size \in SphereSizes :
              /\ solid = LowPolySphere(position_3d, size)
              /\ solid_call = [op |-> "__init__", args |-> <<position_3d, size>>,
                               before |-> NoSolid]

CubeUpdatePosition ==
    /\ solid.kind = "WireframeCube"
    /\ \E new_position \in CubePositions :
           /\ solid' = WireframeCube_update_position(solid, new_position)
           /\ solid_call' = [op |-> "update_position", args |-> <<new_position>>,
                             before |-> solid]
    /\ drawn' = Blank
    /\ UNCHANGED notSolid

SphereUpdatePosition ==
    /\ solid.kind = "LowPolySphere"
    /\ \E new_position \in SpherePositions :
           /\ solid' = LowPolySphere_update_position(solid, new_position)
           /\ solid_call' = [op |-> "update_position", args |-> <<new_position>>,
                             before |-> solid]
    /\ drawn' = Blank
    /\ UNCHANGED notSolid

SphereUpdate ==
    /\ solid.kind = "LowPolySphere"
    /\ \E dt \in Dts :
           /\ solid' = LowPolySphere_update(solid, dt)
           /\ solid_call' = [op |-> "update", args |-> <<dt>>, before |-> solid]
    /\ drawn' = Blank
    /\ UNCHANGED notSolid

NextSolid == CubeUpdatePosition \/ SphereUpdatePosition \/ SphereUpdate

SpecSolid == InitSolid /\ [][NextSolid]_vars

(***************************************************************************)
(* A solid that is also drawn, through the game's camera.                  *)
(***************************************************************************)
CubeRender ==
    /\ solid.kind = "WireframeCube"
    /\ \E color \in RenderColors, line_width \in LineWidths :
           /\ drawn' = WireframeCube_render(solid, camera, color, line_width)
           /\ solid_call' = [op |-> "render", args |-> <<color, line_width>>,
                             before |-> solid]
    /\ UNCHANGED <<solid, notSolid>>

SphereRender ==
    /\ solid.kind = "LowPolySphere"
    /\ \E color \in RenderColors, line_width \in LineWidths :
           /\ drawn' = LowPolySphere_render(solid, camera, color, line_width)
           /\ solid_call' = [op |-> "render", args |-> <<color, line_width>>,
                             before |-> solid]
    /\ UNCHANGED <<solid, notSolid>>

NextRender == NextSolid \/ CubeRender \/ SphereRender

SpecRender == InitSolid /\ [][NextRender]_vars

(***************************************************************************)
(* The colour system: constructed at clock = Epoch, then read by its       *)
(* getters while the system clock runs.  time.time() is the wall clock:    *)
(* it advances, and an adjustment of the system time can set it back.      *)
(***************************************************************************)
time == Lit(clock, 1)

InitColor ==
    /\ InitDefaultCamera
    /\ NoSolids
    /\ NoSnakes
    /\ clock = Epoch
    /\ \E cycle_duration \in CycleDurations :
           color_system = ColorEvolution(cycle_duration, Lit(Epoch, 1))
    /\ color_call = NoColorCall
    /\ hue_log = <<>>

ClockAdvance ==
    /\ \E dt \in ClockSteps :
           /\ clock + dt <= Epoch + MaxElapsed
           /\ clock' = clock + dt
    /\ UNCHANGED <<color_system, color_call, hue_log, notColor>>

ClockSetBack ==
    /\ clock >= Epoch
    /\ clock' = clock - 1
    /\ UNCHANGED <<color_system, color_call, hue_log, notColor>>

GetMasterHue ==
    /\ \E h \in {ColorEvolution_get_master_hue(color_system, time)} :
           /\ color_call' = [op |-> "get_master_hue", at |-> clock,
                             hue |-> h, ret |-> h]
           /\ hue_log' = IF color_call.op = "get_master_hue"
                         THEN <<[at |-> color_call.at, ret |-> color_call.ret]>>
                         ELSE <<>>
    /\ UNCHANGED <<color_system, clock, notColor>>

GetSnakeColor ==
    /\ color_call' = [op |-> "get_snake_color", at |-> clock,
                      hue |-> ColorEvolution_snake_hue(color_system, time),
                      ret |-> ColorEvolution_get_snake_color(color_system,
                                                             time)]
    /\ hue_log' = <<>>
    /\ UNCHANGED <<color_system, clock, notColor>>

GetAppleColor ==
    /\ color_call' = [op |-> "get_apple_color", at |-> clock,
                      hue |-> ColorEvolution_apple_hue(color_system, time),
                      ret |-> ColorEvolution_get_apple_color(color_system,
                                                             time)]
    /\ hue_log' = <<>>
    /\ UNCHANGED <<color_system, clock, notColor>>

GetGridColor ==
    /\ color_call' = [op |-> "get_grid_color", at |-> clock,
                      hue |-> ColorEvolution_grid_hue(color_system, time),
                      ret |-> ColorEvolution_get_grid_color(color_system,
                                                            time)]
    /\ hue_log' = <<>>
    /\ UNCHANGED <<color_system, clock, notColor>>

GetUiColor ==
    /\ color_call' = [op |-> "get_ui_color", at |-> clock,
                      hue |-> ColorEvolution_ui_hue(color_system, time),
                      ret |-> ColorEvolution_get_ui_color(color_system, time)]
    /\ hue_log' = <<>>
    /\ UNCHANGED <<color_system, clock, notColor>>

NextColor ==
    \/ ClockAdvance \/ ClockSetBack \/ GetMasterHue
    \/ GetSnakeColor \/ GetAppleColor \/ GetGridColor \/ GetUiColor

SpecColor == InitColor /\ [][NextColor]_vars

(***************************************************************************)
(* Exact (unrounded) arithmetic on the numbers the floats denote, used     *)
(* only to state properties.                                               *)
(***************************************************************************)
QSub(a, b) ==
    IF IsZero(b) THEN a
    ELSE IF IsZero(a) THEN FNeg(b)
    ELSE Canon(AlignedSum(a, FNeg(b)), Min(a[2], b[2]))
QNeg(a) == FNeg(a)
QAbsLe(a, b) == CmpAbs(a, b) <= 0
QAbsLt(a, b) == CmpAbs(a, b) < 0
(* The float subtraction a - b involved no rounding. *)
ExactSub(a, b) ==
    IF IsZero(a) \/ IsZero(b) THEN TRUE
    ELSE IF Negligible(a, b) \/ Negligible(b, a) THEN FALSE
    ELSE FSub(a, b) = QSub(a, b)
(* The float addition a + b involved no rounding. *)
ExactAdd(a, b) == ExactSub(a, FNeg(b))

(* Offset of a projected point from the camera's vanishing point. *)
OffsetFromVp(self, p) == <<QSub(p[1], self.vp_x), QSub(p[2], self.vp_y)>>

(* Squared Euclidean length of an offset, in units of 4^e. *)
SqLenOver(o, e) ==
    LET nx == o[1][1] * Pow2(o[1][2] - e)
        ny == o[2][1] * Pow2(o[2][2] - e)
    IN  nx * nx + ny * ny

(* p2 is strictly closer (Euclidean distance) to the vanishing point than  *)
(* p1.  When one offset dominates the other in both coordinates the        *)
(* comparison is decided coordinate by coordinate.                         *)
StrictlyCloser(self, p2, p1) ==
    LET o2 == OffsetFromVp(self, p2)
        o1 == OffsetFromVp(self, p1)
        e == Min(Min(o1[1][2], o1[2][2]), Min(o2[1][2], o2[2][2]))
    IN  IF QAbsLe(o2[1], o1[1]) /\ QAbsLe(o2[2], o1[2])
        THEN QAbsLt(o2[1], o1[1]) \/ QAbsLt(o2[2], o1[2])
        ELSE IF QAbsLe(o1[1], o2[1]) /\ QAbsLe(o1[2], o2[2])
        THEN FALSE
        ELSE SqLenOver(o2, e) < SqLenOver(o1, e)

(* p2 is no farther from the vanishing point than p1 in either coordinate. *)
NoFartherEachAxis(self, p2, p1) ==
    LET o2 == OffsetFromVp(self, p2)
        o1 == OffsetFromVp(self, p1)
    IN  QAbsLe(o2[1], o1[1]) /\ QAbsLe(o2[2], o1[2])

Positive(a) == a[1] > 0
IsProject == call.op = "project_3d_to_2d"
ArgX == call.args[1]
ArgY == call.args[2]
ArgZ == call.args[3]

(***************************************************************************)
(* C1.  As claimed: for every camera with perspective_strength > 0 and     *)
(* every point (x, y, 0), project_3d_to_2d returns exactly (x, y).         *)
(***************************************************************************)
C1_ExactNoOpPlane ==
    (IsProject /\ IsZero(ArgZ) /\ Positive(camera.perspective_strength))
        => call.ret = Returned(<<ArgX, ArgY>>)

(***************************************************************************)
(* C1, amended.  For every camera with perspective_strength > 0 and every  *)
(* point (x, y, 0) the call returns, the factor is exactly 1 and the       *)
(* result is (vp_x + (x - vp_x), vp_y + (y - vp_y)) in float arithmetic;   *)
(* a coordinate comes back exactly whenever its subtraction from the       *)
(* vanishing point is computed without rounding.                           *)
(***************************************************************************)
C1_NoOpPlaneUpToRounding ==
    (IsProject /\ IsZero(ArgZ) /\ Positive(camera.perspective_strength))
        => /\ ~call.ret.raised
           /\ call.ret.value =
                  <<FAdd(camera.vp_x, FSub(ArgX, camera.vp_x)),
                    FAdd(camera.vp_y, FSub(ArgY, camera.vp_y))>>
           /\ ExactSub(ArgX, camera.vp_x) => call.ret.value[1] = ArgX
           /\ ExactSub(ArgY, camera.vp_y) => call.ret.value[2] = ArgY

C1_Witness ==
    /\ IsProject /\ IsZero(ArgZ) /\ Positive(camera.perspective_strength)
    /\ ExactSub(ArgX, camera.vp_x) /\ ExactSub(ArgY, camera.vp_y)
    /\ ArgX # camera.vp_x /\ ArgY # camera.vp_y
    /\ call.ret = Returned(<<ArgX, ArgY>>)

C3_StrictConvergence ==
    (IsProject /\ Positive(camera.perspective_strength) /\ ~call.ret.raised)
        => \A z1 \in Depths :
               LET other == project_3d_to_2d(camera, ArgX, ArgY, z1)
               IN  (Lt(z1, ArgZ) /\ ~other.raised)
                       => StrictlyCloser(camera, call.ret.value, other.value)

(***************************************************************************)
(* C3, amended.  With perspective_strength > 0, for fixed (x, y) and       *)
(* depths -perspective_strength < z1 < z2, both projections exist, the     *)
(* projection of (x, y, z2) is no farther from the vanishing point than    *)
(* that of (x, y, z1) in either coordinate, and it is strictly closer      *)
(* whenever the two projected points differ.                               *)
(***************************************************************************)
C3_ConvergenceInFront ==
    (IsProject /\ Positive(camera.perspective_strength))
        => \A z1 \in Depths :
               LET other == project_3d_to_2d(camera, ArgX, ArgY, z1)
               IN  (Lt(QNeg(camera.perspective_strength), z1) /\ Lt(z1, ArgZ))
                       => /\ ~call.ret.raised /\ ~other.raised
                          /\ NoFartherEachAxis(camera, call.ret.value,
                                               other.value)
                          /\ call.ret.value # other.value
                                => StrictlyCloser(camera, call.ret.value,
                                                  other.value)

C3_Witness ==
    /\ IsProject /\ Positive(camera.perspective_strength)
    /\ ~call.ret.raised
    /\ \E z1 \in Depths :
           /\ Lt(QNeg(camera.perspective_strength), z1) /\ Lt(z1, ArgZ)
           /\ StrictlyCloser(camera, call.ret.value,
                             project_3d_to_2d(camera, ArgX, ArgY, z1).value)

C5_ProjectPointsElementwise ==
    call.op = "project_points"
        => LET each == [i \in 1..Len(call.args) |->
                           project_3d_to_2d(camera, call.args[i][1],
                                            call.args[i][2], call.args[i][3])]
           IN  IF \E i \in 1..Len(call.args) : each[i].raised
               THEN call.ret.raised
               ELSE /\ ~call.ret.raised
                    /\ Len(call.ret.value) = Len(call.args)
                    /\ \A i \in 1..Len(call.args) :
                           call.ret.value[i] = each[i].value

C5_Witness ==
    /\ call.op = "project_points"
    /\ ~call.ret.raised
    /\ Len(call.args) = 2 /\ Len(call.ret.value) = 2
    /\ call.args[1] # call.args[2]
    /\ call.ret.value[1] # call.ret.value[2]
    /\ call.ret.value[2] =
           project_3d_to_2d(camera, call.args[2][1], call.args[2][2],
                            call.args[2][3]).value

(***************************************************************************)
(* C6.  A camera built without a vanishing-point override has              *)
(* vp_x = screen_width / 2 and vp_y = 0.75 * screen_height (Camera(800,    *)
(* 600) gives (400, 450)); a supplied override coordinate, the value 0     *)
(* included, is used as it is.                                             *)
(***************************************************************************)
C6_VanishingPointDefaults ==
    /\ ctor_args[3] = None
          => Canon(camera.vp_x[1], camera.vp_x[2] + 1) = Canon(ctor_args[1], 0)
    /\ ctor_args[4] = None
          => Canon(camera.vp_y[1], camera.vp_y[2] + 2)
                 = Canon(3 * ctor_args[2], 0)
    /\ ctor_args[3] # None => camera.vp_x = ctor_args[3]
    /\ ctor_args[4] # None => camera.vp_y = ctor_args[4]
    /\ (ctor_args[1] = 800 /\ ctor_args[2] = 600 /\ ctor_args[3] = None
        /\ ctor_args[4] = None)
          => (camera.vp_x = Lit(400, 1) /\ camera.vp_y = Lit(450, 1))

C6_Witness ==
    /\ ctor_args[1] = 800 /\ ctor_args[2] = 600
    /\ ctor_args[3] = Lit(0, 1) /\ ctor_args[4] = None
    /\ camera.vp_x = Lit(0, 1) /\ camera.vp_y = Lit(450, 1)

(***************************************************************************)
(* Helpers for the claims about the solids.                                *)
(***************************************************************************)
IsCube == solid.kind = "WireframeCube"
IsSphere == solid.kind = "LowPolySphere"
CubeMoved == IsCube /\ solid_call.op = "update_position"

(* A solid's local vertex list and its edge list. *)
LocalVertices(s) ==
    IF s.kind = "WireframeCube" THEN UNIT_CUBE_VERTICES ELSE s.base_vertices
EdgeList(s) == IF s.kind = "WireframeCube" THEN EDGES ELSE s.edges

(* An edge list as a set of undirected edges. *)
Undirected(edges) == {{edges[i][1], edges[i][2]} : i \in 1..Len(edges)}
Degree(E, v) == Cardinality({e \in E : v \in e})

(* The offset _calculate_world_vertices adds to coordinate k of vertex i. *)
CubeOffset(size, i, k) ==
    FMul(Lit(UNIT_CUBE_VERTICES[i][k], 1), FDiv(size, Lit(2, 1)))

(***************************************************************************)
(* C7.  As claimed: after update_position(new) on a cube, position is new, *)
(* each of the 8 world vertices has moved, index by index, by exactly      *)
(* new - old position, the vertex count is 8 and the size is unchanged.    *)
(***************************************************************************)
C7_ShiftsByExactDelta ==
    CubeMoved =>
        /\ solid.position = solid_call.args[1]
        /\ Len(solid.vertices_3d) = 8
        /\ Len(solid_call.before.vertices_3d) = 8
        /\ solid.size = solid_call.before.size
        /\ \A i \in 1..8, k \in 1..3 :
               QSub(solid.vertices_3d[i][k], solid_call.before.vertices_3d[i][k])
                   = QSub(solid.position[k], solid_call.before.position[k])

(***************************************************************************)
(* C7, amended.  After update_position(new) on a cube, position is new,    *)
(* the 8 world vertices are those of a cube of the same size built at new  *)
(* (each coordinate position + unit * size / 2, in floats), the size is    *)
(* unchanged, and a vertex coordinate has moved by exactly the position    *)
(* delta whenever its addition was exact both before and after the move.   *)
(***************************************************************************)
C7_RecomputedFromNewPosition ==
    CubeMoved =>
        /\ solid.position = solid_call.args[1]
        /\ Len(solid.vertices_3d) = 8
        /\ Len(solid_call.before.vertices_3d) = 8
        /\ solid.size = solid_call.before.size
        /\ \A i \in 1..8, k \in 1..3 :
               /\ solid.vertices_3d[i][k] =
                      FAdd(solid.position[k], CubeOffset(solid.size, i, k))
               /\ (/\ ExactAdd(solid.position[k],
                               CubeOffset(solid.size, i, k))
                   /\ ExactAdd(solid_call.before.position[k],
                               CubeOffset(solid.size, i, k)))
                      => QSub(solid.vertices_3d[i][k],
                              solid_call.before.vertices_3d[i][k])
                             = QSub(solid.position[k],
                                    solid_call.before.position[k])

(* A cube moved by a delta that is nonzero in every coordinate, between    *)
(* positions whose additions are all exact.                                *)
C7_Witness ==
    /\ CubeMoved
    /\ solid_call.before.position = <<Lit(400, 1), Lit(300, 1), Lit(0, 1)>>
    /\ solid.position = <<Lit(500, 1), Lit(400, 1), Lit(50, 1)>>
    /\ solid.vertices_3d[1] = <<Lit(490, 1), Lit(390, 1), Lit(40, 1)>>
    /\ solid_call.before.vertices_3d[1] = <<Lit(390, 1), Lit(290, 1), Lit(-10, 1)>>

(***************************************************************************)
(* C8.  Solid invariant: in every state after construction, the world      *)
(* vertex list of the solid is as long as its local vertex list (8 for the *)
(* cube, 12 for the icosahedron) and every index in its edge list is >= 0  *)
(* and < that vertex count.                                                *)
(***************************************************************************)
C8_SolidInvariant ==
    (IsCube \/ IsSphere) =>
        /\ Len(solid.vertices_3d) = Len(LocalVertices(solid))
        /\ Len(solid.vertices_3d) = IF IsCube THEN 8 ELSE 12
        /\ \A e \in 1..Len(EdgeList(solid)), k \in 1..2 :
               /\ EdgeList(solid)[e][k] >= 0
               /\ EdgeList(solid)[e][k] < Len(solid.vertices_3d)

(* An icosahedron that was already turned and is updated once more. *)
C8_Witness ==
    /\ IsSphere
    /\ solid_call.op = "update"
    /\ ~IsZero(solid_call.before.rotation_angle)
    /\ solid.rotation_angle # solid_call.before.rotation_angle
    /\ Len(solid.vertices_3d) = 12

(***************************************************************************)
(* C9.  As claimed: the icosahedron's edge table holds 30 distinct         *)
(* undirected edges over the 12 vertices and every vertex is an endpoint   *)
(* of exactly 5 of them.                                                   *)
(***************************************************************************)
C9_IcosahedralAdjacency ==
    IsSphere =>
        LET E == Undirected(solid.edges)
        IN  /\ Cardinality(E) = 30
            /\ \A e \in E : Cardinality(e) = 2 /\ e \subseteq 0..11
            /\ \A v \in 0..11 : Degree(E, v) = 5

(***************************************************************************)
(* C10.  The cube's tables are a cube: the 8 local vertices are every      *)
(* combination of (+-1, +-1, +-1) exactly once; the 12 edges are 4 forming *)
(* a closed quadrilateral on the z = -1 vertices, 4 forming one on the     *)
(* z = +1 vertices and 4 connectors, one from each back corner to the      *)
(* front corner with the same (x, y); every edge joins vertices differing  *)
(* in exactly one coordinate and every vertex has degree 3.                *)
(***************************************************************************)
C10_CubeTablesAreACube ==
    IsCube =>
        LET V == UNIT_CUBE_VERTICES
            E == Undirected(EDGES)
            At(v) == V[v + 1]
            Layer(z) == {v \in 0..7 : At(v)[3] = z}
            Within(z) == {e \in E : e \subseteq Layer(z)}
            Connectors == {e \in E : \E a \in Layer(-1), b \in Layer(1) :
                                         e = {a, b}}
            Differing(a, b) == {k \in 1..3 : At(a)[k] # At(b)[k]}
        IN  /\ Len(V) = 8
            /\ {V[i] : i \in 1..8} = {-1, 1} \X {-1, 1} \X {-1, 1}
            /\ Len(EDGES) = 12 /\ Cardinality(E) = 12
            /\ \A e \in E : Cardinality(e) = 2 /\ e \subseteq 0..7
            /\ \A z \in {-1, 1} :
                   /\ Cardinality(Within(z)) = 4
                   /\ \A v \in Layer(z) : Degree(Within(z), v) = 2
            /\ Cardinality(Connectors) = 4
            /\ \A a \in Layer(-1) :
                   \E b \in Layer(1) :
                       /\ {a, b} \in Connectors
                       /\ At(a)[1] = At(b)[1] /\ At(a)[2] = At(b)[2]
            /\ \A e \in E : \A a \in e, b \in e :
                   a # b => Cardinality(Differing(a, b)) = 1
            /\ \A v \in 0..7 : Degree(E, v) = 3

(* A cube that was constructed and then moved: 8 world vertices, one per   *)
(* local vertex.                                                           *)
C10_Witness ==
    /\ CubeMoved
    /\ Len(solid.vertices_3d) = Len(UNIT_CUBE_VERTICES)
    /\ solid.position # solid_call.before.position

(***************************************************************************)
(* C11.  render(surface, camera, color, line_width) of a solid, when every *)
(* vertex projects, issues exactly one line-draw command per edge-table    *)
(* entry, in table order, between the camera projections of the edge's two *)
(* indexed world vertices and in the given colour; the command is aaline   *)
(* exactly when line_width = 1 and line with that width otherwise; the     *)
(* solid's position, size and vertices are unchanged.                      *)
(***************************************************************************)
C11_RenderDrawsEveryEdge ==
    solid_call.op = "render" =>
        LET color == solid_call.args[1]
            line_width == solid_call.args[2]
            edges == EdgeList(solid)
            Projection(v) ==
                project_3d_to_2d(camera, solid.vertices_3d[v + 1][1],
                                 solid.vertices_3d[v + 1][2],
                                 solid.vertices_3d[v + 1][3])
        IN  /\ solid = solid_call.before
            /\ (\A v \in 0..(Len(solid.vertices_3d) - 1) :
                    ~Projection(v).raised)
                   =>
                   /\ ~drawn.raised
                   /\ Len(drawn.value) = Len(edges)
                   /\ \A i \in 1..Len(edges) :
                          /\ drawn.value[i].color = color
                          /\ drawn.value[i].p1 = Projection(edges[i][1]).value
                          /\ drawn.value[i].p2 = Projection(edges[i][2]).value
                          /\ drawn.value[i].fn = "aaline" <=> line_width = 1
                          /\ drawn.value[i].fn = "line" <=> line_width # 1
                          /\ drawn.value[i].width = line_width

(* A turned icosahedron drawn with width 1: thirty anti-aliased lines. *)
C11_Witness ==
    /\ solid_call.op = "render"
    /\ IsSphere
    /\ ~IsZero(solid.rotation_angle)
    /\ solid_call.args[2] = 1
    /\ ~drawn.raised
    /\ Len(drawn.value) = 30
    /\ drawn.value[30].fn = "aaline"

(* The number a float denotes is a whole multiple of n, and is not negative. *)
IsMultipleOf(a, n) == a[1] >= 0 /\ a[2] >= 0 /\ (a[1] * Pow2(a[2])) % n = 0

InUnitInterval(h) == Le(Lit(0, 1), h) /\ Lt(h, Lit(1, 1))
(* The number a float denotes is a whole number. *)
IsWhole(a) == a[2] >= 0
(* (now - start_time) / cycle_duration as get_master_hue computes it at    *)
(* clock reading t.                                                        *)
CyclesAt(t) ==
    FDiv(FSub(Lit(t, 1), color_system.start_time), color_system.cycle_duration)

(***************************************************************************)
(* C13.  As claimed: at every sampling time and for every positive         *)
(* cycle_duration, get_master_hue returns ((now - start_time) /            *)
(* cycle_duration) mod 1.0: a value h with 0 <= h < 1 that differs from    *)
(* the quotient by a whole number.                                         *)
(***************************************************************************)
C13_MasterHueInUnitInterval ==
    color_call.op = "get_master_hue" =>
        /\ InUnitInterval(color_call.ret)
        /\ IsWhole(QSub(CyclesAt(color_call.at), color_call.ret))

(* Two get_master_hue calls in a row, the clock not set back in between. *)
TwoHueSamples ==
    /\ color_call.op = "get_master_hue"
    /\ hue_log # <<>>
    /\ hue_log[1].at <= color_call.at
FirstAt == hue_log[1].at
FirstHue == hue_log[1].ret
SecondAt == color_call.at
SecondHue == color_call.ret
HueStep == FDiv(Lit(SecondAt - FirstAt, 1), color_system.cycle_duration)
(* The float quotient q of n by d is the exact quotient. *)
ExactQuotient(q, n, d) == Canon(q[1] * d[1], q[2] + d[2]) = Canon(n, 0)
ExactCyclesAt(t) ==
    ExactQuotient(CyclesAt(t), t - Epoch, color_system.cycle_duration)
(* The whole turns completed at clock reading t >= Epoch. *)
TurnsAt(t) == int(CyclesAt(t))
GettersArePure == [][color_system' = color_system]_vars

SnakeHueNow == ColorEvolution_snake_hue(color_system, Lit(color_call.at, 1))

(***************************************************************************)
(* C15.  At one sampling instant the hue used for the apple colour is      *)
(* (hue used for the snake colour + 0.333) mod 1.0: the float sum less a   *)
(* whole number, in [0, 1); the grid and the UI colour use the snake's hue. *)
(***************************************************************************)
C15_AppleHueOffset ==
    /\ color_call.op = "get_apple_color" =>
           /\ InUnitInterval(color_call.hue)
           /\ IsWhole(QSub(FAdd(SnakeHueNow, Lit(333, 1000)), color_call.hue))
    /\ color_call.op \in {"get_snake_color", "get_grid_color", "get_ui_color"}
           => color_call.hue = SnakeHueNow

(* The apple's hue wrapped: snake hue 3/4, apple hue below 1/2. *)
C15_Witness ==
    /\ color_call.op = "get_apple_color"
    /\ SnakeHueNow = Lit(3, 4)
    /\ Lt(color_call.hue, Lit(1, 2))
    /\ Lt(Lit(0, 1), color_call.hue)

(***************************************************************************)
(* C16.  Each of the four derived colours (snake, apple, grid, ui) is a    *)
(* triple of integers, each in 0..255, at every hue.                       *)
(***************************************************************************)
C16_ChannelsInByteRange ==
    color_call.op \in {"get_snake_color", "get_apple_color",
                       "get_grid_color", "get_ui_color"} =>
        /\ Len(color_call.ret) = 3
        /\ \A k \in 1..3 : color_call.ret[k] \in 0..255

(* The UI colour in the fifth sixth of the hue circle: blue is the full    *)
(* value 0.95, channel 242.                                                *)
C16_Witness ==
    /\ color_call.op = "get_ui_color"
    /\ color_call.hue = Lit(3, 4)
    /\ color_call.ret[3] = 242
    /\ color_call.ret[2] < color_call.ret[1]

(***************************************************************************)
(* main.py: constants, Direction, Snake                                    *)
(***************************************************************************)
GRID_WIDTH == 20
GRID_HEIGHT == 15
CELL_SIZE == 40
CUBE_SIZE == Lit(20, 1)
CUBE_LINE_WIDTH == 2
STARTING_LENGTH == 3
STARTING_POS == <<10, 7>>

(* The members of the Direction enumeration, by name. *)
Direction == {"UP", "DOWN", "LEFT", "RIGHT"}

(* Direction.value *)
Direction_value(self) ==
    CASE self = "UP" -> <<0, -1>>
      [] self = "DOWN" -> <<0, 1>>
      [] self = "LEFT" -> <<-1, 0>>
      [] self = "RIGHT" -> <<1, 0>>

(* Direction.opposite *)
Direction_opposite(self) ==
    CASE self = "UP" -> "DOWN"
      [] self = "DOWN" -> "UP"
      [] self = "LEFT" -> "RIGHT"
      [] self = "RIGHT" -> "LEFT"

(* Snake._create_cube_for_cell: the cell's centre in world space, on the   *)
(* plane z = 0.  x * CELL_SIZE is integer arithmetic, CELL_SIZE / 2 is a   *)
(* float.                                                                  *)
Snake_create_cube_for_cell(grid_pos) ==
    LET world_x == FAdd(Lit(grid_pos[1] * CELL_SIZE, 1),
                        FDiv(Lit(CELL_SIZE, 1), Lit(2, 1)))
        world_y == FAdd(Lit(grid_pos[2] * CELL_SIZE, 1),
                        FDiv(Lit(CELL_SIZE, 1), Lit(2, 1)))
        world_z == Lit(0, 1)
    IN  WireframeCube(<<world_x, world_y, world_z>>, CUBE_SIZE)

(* The list comprehension both reset and move end with. *)
Snake_cubes_for(body) ==
    [i \in 1..Len(body) |-> Snake_create_cube_for_cell(body[i])]

(* Snake.reset; Snake.__init__ stores the camera, which the model keeps in *)
(* the variable camera, and calls reset.                                   *)
Snake_reset ==
    CHOOSE self \in
        {[body |-> body,
          direction |-> "RIGHT",
          next_direction |-> "RIGHT",
          grow_pending |-> 0,
          cubes |-> Snake_cubes_for(body)] :
         body \in {[i \in 1..STARTING_LENGTH |->
                       <<STARTING_POS[1] - (i - 1), STARTING_POS[2]>>]}} : TRUE

(* set_direction without the test against the opposite direction. *)
Snake_set_direction_Unchecked(self, new_direction) ==
    [self EXCEPT !.next_direction = new_direction]

(* Snake.set_direction *)
Snake_set_direction(self, new_direction) ==
    IF new_direction # Direction_opposite(self.direction)
    THEN [self EXCEPT !.next_direction = new_direction]
    ELSE self

(* The body after a move in direction d: a new head in front, the tail     *)
(* dropped unless growth is pending.                                       *)
Snake_moved_body(self, d) ==
    LET new_head == <<self.body[1][1] + Direction_value(d)[1],
                      self.body[1][2] + Direction_value(d)[2]>>
    IN  IF self.grow_pending > 0
        THEN <<new_head>> \o self.body
        ELSE <<new_head>> \o SubSeq(self.body, 1, Len(self.body) - 1)

(* move that leaves the cubes of the old body in place. *)
Snake_move_StaleCubes(self) ==
    [body |-> Snake_moved_body(self, self.next_direction),
     direction |-> self.next_direction,
     next_direction |-> self.next_direction,
     grow_pending |-> IF self.grow_pending > 0
                      THEN self.grow_pending - 1 ELSE 0,
     cubes |-> self.cubes]

(* Snake.move *)
Snake_move(self) ==
    CHOOSE after \in
        {[body |-> body,
          direction |-> self.next_direction,
          next_direction |-> self.next_direction,
          grow_pending |-> IF self.grow_pending > 0
                           THEN self.grow_pending - 1 ELSE 0,
          cubes |-> Snake_cubes_for(body)] :
         body \in {Snake_moved_body(self, self.next_direction)}} : TRUE

(* Snake.grow *)
Snake_grow(self) == [self EXCEPT !.grow_pending = @ + 1]

(* check_collision that looks at the walls only. *)
Snake_check_collision_WallsOnly(self) ==
    LET head == self.body[1]
    IN  \/ head[1] < 0
        \/ head[1] >= GRID_WIDTH
        \/ head[2] < 0
        \/ head[2] >= GRID_HEIGHT

(* Snake.check_collision *)
Snake_check_collision(self) ==
    LET head == self.body[1]
    IN  \/ head[1] < 0
        \/ head[1] >= GRID_WIDTH
        \/ head[2] < 0
        \/ head[2] >= GRID_HEIGHT
        \/ \E i \in 2..Len(self.body) : self.body[i] = head

(***************************************************************************)
(* main.py: Game                                                           *)
(***************************************************************************)
STARTING_SPEED == 8
SPEED_INCREMENT == 1
SPEED_TRIGGER == 5
MAX_SPEED == 20

(* The members of the GameState enumeration, by name. *)
GameState == {"MENU", "PLAYING", "PAUSED", "GAME_OVER"}

Cells(body) == {body[i] : i \in 1..Len(body)}

(* Game.load_high_score: the number in the file, 0 when there is no file.  *)
(* The file is the empty tuple when absent, else the one number it holds.  *)
Game_load_high_score(file) == IF file = <<>> THEN 0 ELSE file[1]

(* Game.spawn_apple.  The loop draws cells until one is off the snake's    *)
(* body; cell is that last draw.  The sphere is centred on the cell.       *)
Game_spawn_apple(self, cell) ==
    LET world_x == FAdd(Lit(cell[1] * CELL_SIZE, 1),
                        FDiv(Lit(CELL_SIZE, 1), Lit(2, 1)))
        world_y == FAdd(Lit(cell[2] * CELL_SIZE, 1),
                        FDiv(Lit(CELL_SIZE, 1), Lit(2, 1)))
        world_z == Lit(0, 1)
    IN  [self EXCEPT
            !.apple_pos = cell,
            !.apple_sphere = LowPolySphere(<<world_x, world_y, world_z>>,
                                           FMul(CUBE_SIZE, Lit(8, 10)))]

(* Game.__init__, with the snake it constructs.  file is the content of    *)
(* the high score file.                                                    *)
Game(file, cell) ==
    [game |-> Game_spawn_apple(
                  [state |-> "MENU",
                   score |-> 0,
                   high_score |-> Game_load_high_score(file),
                   highscore_file |-> file,
                   speed |-> STARTING_SPEED,
                   move_timer |-> Lit(0, 1),
                   apple_pos |-> None,
                   apple_sphere |-> None], cell),
     snake |-> Snake_reset]

(* Game.start_game; on is the game with its snake. *)
Game_start_game(on, cell) ==
    [game |-> Game_spawn_apple(
                  [on.game EXCEPT !.state = "PLAYING",
                                  !.score = 0,
                                  !.speed = STARTING_SPEED,
                                  !.move_timer = Lit(0, 1)], cell),
     snake |-> Snake_reset]

(* Game.game_over *)
Game_game_over(self) == [self EXCEPT !.state = "GAME_OVER"]

(* The direction an arrow key asks for. *)
KeyDirection(key) ==
    CASE key \in {"K_UP", "K_w"} -> "UP"
      [] key \in {"K_DOWN", "K_s"} -> "DOWN"
      [] key \in {"K_LEFT", "K_a"} -> "LEFT"
      [] key \in {"K_RIGHT", "K_d"} -> "RIGHT"

ArrowKeys == {"K_UP", "K_DOWN", "K_LEFT", "K_RIGHT"}
(* The keys of the movement branches of Game.handle_input. *)
MoveKeys == ArrowKeys \cup {"K_w", "K_s", "K_a", "K_d"}

(* handle_input whose pause screen also takes SPACE, back to the menu. *)
Game_handle_key_BackToMenu(on, key, cell) ==
    CASE on.game.state = "MENU" ->
             IF key = "K_SPACE" THEN Game_start_game(on, cell) ELSE on
      [] on.game.state = "PLAYING" ->
             IF key \in MoveKeys
             THEN [on EXCEPT !.snake =
                      Snake_set_direction(on.snake, KeyDirection(key))]
             ELSE IF key \in {"K_ESCAPE", "K_p"}
                  THEN [on EXCEPT !.game.state = "PAUSED"]
                  ELSE on
      [] on.game.state = "PAUSED" ->
             IF key = "K_ESCAPE"
             THEN [on EXCEPT !.game.state = "PLAYING"]
             ELSE IF key = "K_SPACE"
                  THEN [on EXCEPT !.game.state = "MENU"]
                  ELSE on
      [] on.game.state = "GAME_OVER" ->
             IF key = "K_SPACE" THEN Game_start_game(on, cell) ELSE on

(* The body of the event loop of Game.handle_input for one KEYDOWN event   *)
(* that does not quit.                                                     *)
Game_handle_key(on, key, cell) ==
    CASE on.game.state = "MENU" ->
             IF key = "K_SPACE" THEN Game_start_game(on, cell) ELSE on
      [] on.game.state = "PLAYING" ->
             IF key \in MoveKeys
             THEN [on EXCEPT !.snake =
                      Snake_set_direction(on.snake, KeyDirection(key))]
             ELSE IF key \in {"K_ESCAPE", "K_p"}
                  THEN [on EXCEPT !.game.state = "PAUSED"]
                  ELSE on
      [] on.game.state = "PAUSED" ->
             IF key = "K_ESCAPE"
             THEN [on EXCEPT !.game.state = "PLAYING"]
             ELSE on
      [] on.game.state = "GAME_OVER" ->
             IF key = "K_SPACE" THEN Game_start_game(on, cell) ELSE on

(* Game.handle_input: the queued events in order; a QUIT event (or the q   *)
(* key) returns False at once and leaves the rest of the queue unread.     *)
RECURSIVE Game_handle_input(_, _, _)
Game_handle_input(on, events, cell) ==
    IF events = <<>> THEN [on |-> on, ret |-> TRUE]
    ELSE IF Head(events) = "QUIT" THEN [on |-> on, ret |-> FALSE]
    ELSE Game_handle_input(Game_handle_key(on, Head(events), cell),
                           Tail(events), cell)

(* Whether Game.handle_input with these events reaches start_game: a       *)
(* SPACE, before any QUIT, while in the menu or after a game over.  No     *)
(* event leads into either state.                                          *)
RECURSIVE Game_handle_input_starts(_, _)
Game_handle_input_starts(state, events) ==
    /\ events # <<>>
    /\ Head(events) # "QUIT"
    /\ state \in {"MENU", "GAME_OVER"}
    /\ \/ Head(events) = "K_SPACE"
       \/ Game_handle_input_starts(state, Tail(events))

(* The steps Game.state takes in Game.handle_input, one for each event     *)
(* the loop handles: the state before, the key, the state after.           *)
RECURSIVE Game_handle_input_trail(_, _, _)
Game_handle_input_trail(on, events, cell) ==
    IF events = <<>> \/ Head(events) = "QUIT" THEN <<>>
    ELSE LET next == Game_handle_key(on, Head(events), cell)
         IN  <<[from |-> on.game.state, by |-> Head(events),
                to |-> next.game.state]>>
             \o Game_handle_input_trail(next, Tail(events), cell)

(* update that speeds the game up at every apple. *)
Game_after_move_EveryApple(self, moved, cell) ==
    IF Snake_check_collision(moved)
    THEN [game |-> Game_game_over(self), snake |-> moved]
    ELSE IF moved.body[1] = self.apple_pos
    THEN LET score == self.score + 1
             beaten == score > self.high_score
         IN  [game |-> Game_spawn_apple(
                  [self EXCEPT
                      !.score = score,
                      !.high_score = IF beaten THEN score ELSE @,
                      !.highscore_file = IF beaten THEN <<score>> ELSE @,
                      !.speed = IF @ < MAX_SPEED
                                THEN @ + SPEED_INCREMENT ELSE @], cell),
              snake |-> Snake_grow(moved)]
    ELSE [game |-> self, snake |-> moved]

(* The part of Game.update that follows snake.move(): the collision ends   *)
(* the game; the apple under the head is eaten, scored, and spawned anew   *)
(* at cell.                                                                *)
Game_after_move(self, moved, cell) ==
    IF Snake_check_collision(moved)
    THEN [game |-> Game_game_over(self), snake |-> moved]
    ELSE IF moved.body[1] = self.apple_pos
    THEN LET score == self.score + 1
             beaten == score > self.high_score
         IN  [game |-> Game_spawn_apple(
                  [self EXCEPT
                      !.score = score,
                      !.high_score = IF beaten THEN score ELSE @,
                      !.highscore_file = IF beaten THEN <<score>> ELSE @,
                      !.speed = IF score % SPEED_TRIGGER = 0 /\ @ < MAX_SPEED
                                THEN @ + SPEED_INCREMENT ELSE @], cell),
              snake |-> Snake_grow(moved)]
    ELSE [game |-> self, snake |-> moved]

(* The game and its snake after the timer part of Game.update, with the    *)
(* sphere already turned and the timer already advanced to timer.          *)
Game_timed_move(on, turned, timer, cell) ==
    IF Le(FDiv(Lit(1, 1), Lit(on.game.speed, 1)), timer)
    THEN Game_after_move([on.game EXCEPT !.apple_sphere = turned,
                                         !.move_timer = Lit(0, 1)],
                         Snake_move(on.snake), cell)
    ELSE [game |-> [on.game EXCEPT !.apple_sphere = turned,
                                   !.move_timer = timer],
          snake |-> on.snake]

(* update that turns the apple whatever the state. *)
Game_update_TurnsAlways(on, dt, cell) ==
    IF on.game.state # "PLAYING"
    THEN [on EXCEPT !.game.apple_sphere =
             LowPolySphere_update(on.game.apple_sphere, dt)]
    ELSE CHOOSE after \in
             {Game_timed_move(on, turned, timer, cell) :
              turned \in {LowPolySphere_update(on.game.apple_sphere, dt)},
              timer \in {FAdd(on.game.move_timer, dt)}} : TRUE

(* Game.update *)
Game_update(on, dt, cell) ==
    IF on.game.state # "PLAYING" THEN on
    ELSE CHOOSE after \in
             {Game_timed_move(on, turned, timer, cell) :
              turned \in {LowPolySphere_update(on.game.apple_sphere, dt)},
              timer \in {FAdd(on.game.move_timer, dt)}} : TRUE

(* Whether Game.update with this frame time reaches spawn_apple. *)
Game_update_spawns(on, dt) ==
    /\ on.game.state = "PLAYING"
    /\ Le(FDiv(Lit(1, 1), Lit(on.game.speed, 1)), FAdd(on.game.move_timer, dt))
    /\ LET body == Snake_moved_body(on.snake, on.snake.next_direction)
       IN  /\ ~Snake_check_collision([body |-> body])
           /\ body[1] = on.game.apple_pos

(***************************************************************************)
(* snake_game.py: Snake, Apple, GameManager.  Directions are the (dx, dy)  *)
(* pairs themselves.                                                       *)
(***************************************************************************)
GRID_SIZE == 20

(* Snake.__init__ *)
snake_game_Snake ==
    [body |-> <<(<<10, 10>>), (<<9, 10>>), (<<8, 10>>)>>,
     direction |-> <<1, 0>>,
     pending_growth |-> 0]

(* move that spends all the pending growth on its one new cell. *)
snake_game_Snake_move_SpendsAll(self) ==
    LET new_head == <<self.body[1][1] + self.direction[1],
                      self.body[1][2] + self.direction[2]>>
    IN  IF self.pending_growth > 0
        THEN [self EXCEPT !.body = <<new_head>> \o @,
                          !.pending_growth = 0]
        ELSE [self EXCEPT !.body = <<new_head>> \o SubSeq(@, 1, Len(@) - 1)]

(* Snake.move *)
snake_game_Snake_move(self) ==
    LET new_head == <<self.body[1][1] + self.direction[1],
                      self.body[1][2] + self.direction[2]>>
    IN  IF self.pending_growth > 0
        THEN [self EXCEPT !.body = <<new_head>> \o @,
                          !.pending_growth = @ - 1]
        ELSE [self EXCEPT !.body = <<new_head>> \o SubSeq(@, 1, Len(@) - 1)]

(* Snake.change_direction *)
snake_game_Snake_change_direction(self, new_direction) ==
    IF self.direction = <<-new_direction[1], -new_direction[2]>>
    THEN self
    ELSE [self EXCEPT !.direction = new_direction]

(* Snake.check_self_collision *)
snake_game_Snake_check_self_collision(self) ==
    \E i \in 2..Len(self.body) : self.body[i] = self.body[1]

(* Snake.check_wall_collision *)
snake_game_Snake_check_wall_collision(self) ==
    \/ self.body[1][1] < 0
    \/ self.body[1][1] >= GRID_SIZE
    \/ self.body[1][2] < 0
    \/ self.body[1][2] >= GRID_SIZE

(* Snake.check_apple_collision *)
snake_game_Snake_check_apple_collision(self, apple_position) ==
    self.body[1] = apple_position

(* Snake.grow *)
snake_game_Snake_grow(self) == [self EXCEPT !.pending_growth = @ + 1]

(* Apple.__init__ and Apple.spawn.  The loop draws positions until one is  *)
(* off the snake's body; position is that last draw.                       *)
Apple(position) == [position |-> position]

(* Apple.respawn *)
Apple_respawn(self, position) == [self EXCEPT !.position = position]

(* GameManager.__init__ and GameManager.restart_game, which assign the     *)
(* same four fields.                                                       *)
GameManager(position) ==
    [snake |-> snake_game_Snake,
     apple |-> Apple(position),
     score |-> 0,
     game_over |-> FALSE]

(* The body of the event loop of GameManager.handle_input for one KEYDOWN  *)
(* event.                                                                  *)
GameManager_handle_key(self, key, position) ==
    IF self.game_over
    THEN IF key = "K_SPACE" THEN GameManager(position) ELSE self
    ELSE IF key \in ArrowKeys
         THEN [self EXCEPT !.snake =
                  snake_game_Snake_change_direction(
                      @, Direction_value(KeyDirection(key)))]
         ELSE self

(* GameManager.handle_input: the queued events in order; a QUIT event      *)
(* returns False at once.                                                  *)
RECURSIVE GameManager_handle_input(_, _, _)
GameManager_handle_input(self, events, position) ==
    IF events = <<>> THEN [on |-> self, ret |-> TRUE]
    ELSE IF Head(events) = "QUIT" THEN [on |-> self, ret |-> FALSE]
    ELSE GameManager_handle_input(
             GameManager_handle_key(self, Head(events), position),
             Tail(events), position)

(* Whether GameManager.handle_input with these events reaches             *)
(* restart_game: a SPACE, before any QUIT, after a game over.              *)
RECURSIVE GameManager_handle_input_restarts(_, _)
GameManager_handle_input_restarts(over, events) ==
    /\ events # <<>>
    /\ Head(events) # "QUIT"
    /\ over
    /\ \/ Head(events) = "K_SPACE"
       \/ GameManager_handle_input_restarts(over, Tail(events))

(* The part of GameManager.update that follows snake.move(). *)
GameManager_after_move(self, moved, position) ==
    IF \/ snake_game_Snake_check_wall_collision(moved)
       \/ snake_game_Snake_check_self_collision(moved)
    THEN [self EXCEPT !.snake = moved, !.game_over = TRUE]
    ELSE IF snake_game_Snake_check_apple_collision(moved, self.apple.position)
    THEN [self EXCEPT !.score = @ + 1,
                      !.snake = snake_game_Snake_grow(moved),
                      !.apple = Apple_respawn(@, position)]
    ELSE [self EXCEPT !.snake = moved]

(* GameManager.update *)
GameManager_update(self, position) ==
    IF self.game_over THEN self
    ELSE GameManager_after_move(self, snake_game_Snake_move(self.snake),
                                position)

(* Whether GameManager.update reaches apple.respawn. *)
GameManager_update_respawns(self) ==
    /\ ~self.game_over
    /\ LET moved == snake_game_Snake_move(self.snake)
       IN  /\ ~snake_game_Snake_check_wall_collision(moved)
           /\ ~snake_game_Snake_check_self_collision(moved)
           /\ snake_game_Snake_check_apple_collision(moved,
                                                     self.apple.position)

(***************************************************************************)
(* A snake on its own, that of main.py or that of snake_game.py:           *)
(* constructed, then steered, moved, fed and (main.py) reset in any order. *)
(***************************************************************************)

(* Most moves followed after a reset. *)
MaxMoves == 3
(* Longest snake followed: body cells plus growth still pending. *)
MaxLength == 5

InitSnake ==
    /\ InitDefaultCamera
    /\ NoSolids
    /\ NoColors
    /\ NoGames
    /\ snake_call = [NoSnakeCall EXCEPT !.op = "__init__"]
    /\ \/ snake = Snake_reset /\ plain_snake = None
       \/ snake = None /\ plain_snake = snake_game_Snake

SnakeReset ==
    /\ snake # None
    /\ snake' = Snake_reset
    /\ snake_call' = [op |-> "reset", args |-> <<>>, before |-> snake,
                      moves |-> 0, grows |-> 0]
    /\ UNCHANGED <<plain_snake, notSnake>>

SnakeSetDirection ==
    /\ snake # None
    /\ \E new_direction \in Direction :
           /\ snake' = Snake_set_direction(snake, new_direction)
           /\ snake_call' = [snake_call EXCEPT !.op = "set_direction",
                                               !.args = <<new_direction>>,
                                               !.before = snake]
    /\ UNCHANGED <<plain_snake, notSnake>>

SnakeMove ==
    /\ snake # None
    /\ snake_call.moves < MaxMoves
    /\ snake' = Snake_move(snake)
    /\ snake_call' = [snake_call EXCEPT !.op = "move", !.args = <<>>,
                                        !.before = snake, !.moves = @ + 1]
    /\ UNCHANGED <<plain_snake, notSnake>>

SnakeGrow ==
    /\ snake # None
    /\ Len(snake.body) + snake.grow_pending < MaxLength
    /\ snake' = Snake_grow(snake)
    /\ snake_call' = [snake_call EXCEPT !.op = "grow", !.args = <<>>,
                                        !.before = snake, !.grows = @ + 1]
    /\ UNCHANGED <<plain_snake, notSnake>>

PlainSnakeChangeDirection ==
    /\ plain_snake # None
    /\ \E new_direction \in Direction :
           /\ plain_snake' = snake_game_Snake_change_direction(
                                 plain_snake, Direction_value(new_direction))
           /\ snake_call' = [snake_call EXCEPT !.op = "change_direction",
                                               !.args = <<new_direction>>,
                                               !.before = plain_snake]
    /\ UNCHANGED <<snake, notSnake>>

PlainSnakeMove ==
    /\ plain_snake # None
    /\ snake_call.moves < MaxMoves
    /\ plain_snake' = snake_game_Snake_move(plain_snake)
    /\ snake_call' = [snake_call EXCEPT !.op = "move", !.args = <<>>,
                                        !.before = plain_snake,
                                        !.moves = @ + 1]
    /\ UNCHANGED <<snake, notSnake>>

PlainSnakeGrow ==
    /\ plain_snake # None
    /\ Len(plain_snake.body) + plain_snake.pending_growth < MaxLength
    /\ plain_snake' = snake_game_Snake_grow(plain_snake)
    /\ snake_call' = [snake_call EXCEPT !.op = "grow", !.args = <<>>,
                                        !.before = plain_snake,
                                        !.grows = @ + 1]
    /\ UNCHANGED <<snake, notSnake>>

NextSnake ==
    \/ SnakeReset \/ SnakeSetDirection \/ SnakeMove \/ SnakeGrow
    \/ PlainSnakeChangeDirection \/ PlainSnakeMove \/ PlainSnakeGrow

SpecSnake == InitSnake /\ [][NextSnake]_vars

(***************************************************************************)
(* The two games, each in its run() loop: constructed, then frame after    *)
(* frame handle_input with the events queued since the last frame and      *)
(* update.  (render draws and changes nothing of the game.)                *)
(***************************************************************************)

(* Most frames followed. *)
MaxFrames == 4
(* Most events queued between two frames. *)
MaxEvents == 2
(* The events that reach handle_input: key presses and the window's QUIT   *)
(* (the q key of main.py takes the same path as QUIT).                     *)
Events == {"K_SPACE", "K_UP", "K_DOWN", "K_LEFT", "K_RIGHT", "K_ESCAPE", "QUIT"}
(* Frame times clock.tick(FPS_TARGET) / 1000.0 measures, steady over a     *)
(* run: an eighth of a second (the snake moves every frame at the starting *)
(* speed) and a sixteenth (every other frame).                             *)
FrameTimes == {Lit(1, 8), Lit(1, 16)}
(* Content of the high score file at start: a high score of 1, which the  *)
(* second apple beats.                                                    *)
HighScoreFiles == {<<1>>}
(* Cells random.randint draws in main.py: under the head, the two cells    *)
(* ahead of it, and one far away.                                          *)
RandomCells == {<<10, 7>>, <<11, 7>>, <<12, 7>>, <<3, 3>>}
(* Positions random.randint draws in snake_game.py, likewise. *)
RandomPositions == {<<10, 10>>, <<11, 10>>, <<12, 10>>, <<3, 3>>}

(* A spawn loop that takes its first draw, on the body or not. *)
FreeOf_AnyDraw(draws, body) == draws

(* The draws that end the spawn loop: those off the body. *)
FreeOf(draws, body) == {c \in draws : c \notin Cells(body)}

OnGame == [game |-> game, snake |-> snake]

InitGames ==
    /\ InitDefaultCamera
    /\ NoSolids
    /\ clock = Epoch
    /\ color_call = NoColorCall
    /\ hue_log = <<>>
    /\ snake_call = NoSnakeCall
    /\ plain_snake = None
    /\ trail = <<>>
    /\ NoCascade
    /\ \/ /\ color_system = ColorEvolution(Lit(60, 1), Lit(Epoch, 1))
          /\ manager = None
          /\ \E file \in HighScoreFiles,
                cell \in FreeOf(RandomCells, Snake_reset.body) :
                 /\ game = Game(file, cell).game
                 /\ snake = Game(file, cell).snake
          /\ \E dt \in FrameTimes :
                 loop = [at |-> "handle_input", dt |-> dt, running |-> TRUE,
                         frames |-> 0]
       \/ /\ color_system = None
          /\ game = None
          /\ snake = None
          /\ \E position \in FreeOf(RandomPositions, snake_game_Snake.body) :
                 manager = GameManager(position)
          /\ loop = [at |-> "handle_input", dt |-> None, running |-> TRUE,
                     frames |-> 0]

(* running = self.handle_input() of main.py.  The draw is used when the    *)
(* events start a game: the snake is then at its starting cells.           *)
GameHandleInput ==
    /\ game # None
    /\ loop.at = "handle_input"
    /\ \E events \in SeqsUpTo(Events, MaxEvents) :
       \E cell \in IF Game_handle_input_starts(game.state, events)
                   THEN FreeOf(RandomCells, Snake_reset.body)
                   ELSE {None} :
       \E done \in {Game_handle_input(OnGame, events, cell)} :
           /\ game' = done.on.game
           /\ snake' = done.on.snake
           /\ loop' = [loop EXCEPT !.at = "update", !.running = done.ret]
    /\ UNCHANGED <<snake_call, plain_snake, manager, trail, notGame>>

(* self.update(dt) of main.py, and the loop's test of running. *)
GameUpdate ==
    /\ game # None
    /\ loop.at = "update"
    /\ loop.frames < MaxFrames
    /\ \E cell \in IF Game_update_spawns(OnGame, loop.dt)
                   THEN FreeOf(RandomCells,
                               Snake_moved_body(snake, snake.next_direction))
                   ELSE {None} :
       \E done \in {Game_update(OnGame, loop.dt, cell)} :
           /\ game' = done.game
           /\ snake' = done.snake
    /\ loop' = [loop EXCEPT !.at = IF loop.running THEN "handle_input"
                                   ELSE "quit",
                            !.frames = @ + 1]
    /\ UNCHANGED <<snake_call, plain_snake, manager, trail, notGame>>

(* running = self.handle_input() of snake_game.py. *)
ManagerHandleInput ==
    /\ manager # None
    /\ loop.at = "handle_input"
    /\ \E events \in SeqsUpTo(Events, MaxEvents) :
       \E position \in IF GameManager_handle_input_restarts(manager.game_over,
                                                             events)
                       THEN FreeOf(RandomPositions, snake_game_Snake.body)
                       ELSE {None} :
       \E done \in {GameManager_handle_input(manager, events, position)} :
           /\ manager' = done.on
           /\ loop' = [loop EXCEPT !.at = "update", !.running = done.ret]
    /\ UNCHANGED <<snake, snake_call, plain_snake, game, trail, notGame>>

(* self.update() of snake_game.py, and the loop's test of running. *)
ManagerUpdate ==
    /\ manager # None
    /\ loop.at = "update"
    /\ loop.frames < MaxFrames
    /\ \E position \in IF GameManager_update_respawns(manager)
                       THEN FreeOf(RandomPositions,
                                   snake_game_Snake_move(manager.snake).body)
                       ELSE {None} :
           manager' = GameManager_update(manager, position)
    /\ loop' = [loop EXCEPT !.at = IF loop.running THEN "handle_input"
                                   ELSE "quit",
                            !.frames = @ + 1]
    /\ UNCHANGED <<snake, snake_call, plain_snake, game, trail, notGame>>

NextGames ==
    GameHandleInput \/ GameUpdate \/ ManagerHandleInput \/ ManagerUpdate

SpecGames == InitGames /\ [][NextGames]_vars

(***************************************************************************)
(* Game.run of main.py followed for longer, to the end of a game and into  *)
(* the next.  The window stays open and the frame time is steady at an     *)
(* eighth of a second, so the snake moves in every frame played.  A run is *)
(* one of two kinds.  In a steered run the player starts, pauses and       *)
(* steers up, left and down, and apples fall on the two cells ahead of the *)
(* starting head or far away: the snake can eat twice and turn into        *)
(* itself.  In a straight run the player only presses SPACE and apples     *)
(* fall on the five cells ahead or far away: the snake can eat five times  *)
(* and runs into the right wall.  A run is followed for a number of frames *)
(* played, those whose update finds the state PLAYING; the frames spent in *)
(* the menu, paused or after the game's end are not counted.  trail keeps  *)
(* the steps of Game.state in the last call.  The run of snake_game.py is  *)
(* followed beside them, as above.                                         *)
(***************************************************************************)

(* Most frames played in a steered run. *)
MaxSteeredFrames == 6
(* Most frames played in a straight run. *)
MaxStraightFrames == 10
(* Most events queued between two frames of a run. *)
MaxQueued == 1
(* The frame time of a run. *)
RunFrameTime == Lit(1, 8)
(* The two kinds of run: the keys pressed, the cells random.randint draws, *)
(* the frames played.                                                      *)
Runs ==
    {[keys |-> {"K_SPACE", "K_ESCAPE", "K_p", "K_UP", "K_a", "K_DOWN"},
      cells |-> {<<11, 7>>, <<12, 7>>, <<3, 3>>},
      frames |-> MaxSteeredFrames],
     [keys |-> {"K_SPACE"},
      cells |-> {<<11, 7>>, <<12, 7>>, <<13, 7>>, <<14, 7>>, <<15, 7>>,
                 <<3, 3>>},
      frames |-> MaxStraightFrames]}

InitRun ==
    /\ InitDefaultCamera
    /\ NoSolids
    /\ clock = Epoch
    /\ color_call = NoColorCall
    /\ hue_log = <<>>
    /\ snake_call = NoSnakeCall
    /\ plain_snake = None
    /\ NoCascade
    /\ trail = <<>>
    /\ \/ /\ color_system = ColorEvolution(Lit(60, 1), Lit(Epoch, 1))
          /\ manager = None
          /\ \E run \in Runs :
                /\ \E file \in HighScoreFiles,
                      cell \in FreeOf(run.cells, Snake_reset.body) :
                       /\ game = Game(file, cell).game
                       /\ snake = Game(file, cell).snake
                /\ loop = [at |-> "handle_input", dt |-> RunFrameTime,
                           running |-> TRUE, frames |-> 0, run |-> run]
       \/ /\ color_system = None
          /\ game = None
          /\ snake = None
          /\ \E position \in FreeOf(RandomPositions, snake_game_Snake.body) :
                 manager = GameManager(position)
          /\ loop = [at |-> "handle_input", dt |-> None, running |-> TRUE,
                     frames |-> 0]

(* running = self.handle_input(), in a run. *)
RunHandleInput ==
    /\ game # None
    /\ loop.at = "handle_input"
    /\ \E events \in SeqsUpTo(loop.run.keys, MaxQueued) :
       \E cell \in IF Game_handle_input_starts(game.state, events)
                   THEN FreeOf(loop.run.cells, Snake_reset.body)
                   ELSE {None} :
       \E done \in {Game_handle_input(OnGame, events, cell)} :
           /\ game' = done.on.game
           /\ snake' = done.on.snake
           /\ loop' = [loop EXCEPT !.at = "update", !.running = done.ret]
           /\ trail' = Game_handle_input_trail(OnGame, events, cell)
    /\ UNCHANGED <<snake_call, plain_snake, manager, notGame>>

(* self.update(dt), in a run, and the loop's test of running. *)
RunUpdate ==
    /\ game # None
    /\ loop.at = "update"
    /\ loop.frames < loop.run.frames
    /\ \E cell \in IF Game_update_spawns(OnGame, loop.dt)
                   THEN FreeOf(loop.run.cells,
                               Snake_moved_body(snake, snake.next_direction))
                   ELSE {None} :
       \E done \in {Game_update(OnGame, loop.dt, cell)} :
           /\ game' = done.game
           /\ snake' = done.snake
           /\ trail' = <<[from |-> game.state, by |-> "update",
                          to |-> done.game.state]>>
    /\ loop' = [loop EXCEPT !.at = IF loop.running THEN "handle_input"
                                   ELSE "quit",
                            !.frames = IF game.state = "PLAYING"
                                       THEN @ + 1 ELSE @]
    /\ UNCHANGED <<snake_call, plain_snake, manager, notGame>>

NextRun ==
    RunHandleInput \/ RunUpdate \/ ManagerHandleInput \/ ManagerUpdate

SpecRun == InitRun /\ [][NextRun]_vars

(***************************************************************************)
(* Properties of the snake of main.py.                                     *)
(***************************************************************************)
SnakeExists == snake # None

(* The cube c is the cube of cell: a WireframeCube of size 20 whose centre *)
(* is exactly (x * 40 + 20, y * 40 + 20, 0) and whose eight vertices are   *)
(* that centre with 10 added or subtracted on each axis.                   *)
IsCubeOfCell(c, cell) ==
    /\ c.kind = "WireframeCube"
    /\ c.size = Lit(20, 1)
    /\ c.position = <<Lit(cell[1] * 40 + 20, 1), Lit(cell[2] * 40 + 20, 1),
                      Lit(0, 1)>>
    /\ Len(c.vertices_3d) = 8
    /\ \A i \in 1..8 : \A k \in 1..3 :
           c.vertices_3d[i][k] =
               Lit([j \in 1..3 |-> IF j = 3 THEN 0 ELSE cell[j] * 40 + 20][k]
                   + 10 * UNIT_CUBE_VERTICES[i][k], 1)

(***************************************************************************)
(* C17.  In main.py the snake's cubes always match its body: after reset   *)
(* and after every move (and in between), there are as many cubes as body  *)
(* cells and cube i is the size-20 cube centred at                         *)
(* (x_i * 40 + 20, y_i * 40 + 20, 0) for body cell i = (x_i, y_i).         *)
(***************************************************************************)
C17_CubesMatchBody ==
    SnakeExists =>
        /\ Len(snake.cubes) = Len(snake.body)
        /\ \A i \in 1..Len(snake.body) :
               IsCubeOfCell(snake.cubes[i], snake.body[i])

(* A move that lengthened the snake and turned it upwards: four cells,     *)
(* four cubes, the head's cube one cell above the old head's.              *)
C17_Witness ==
    /\ SnakeExists
    /\ snake_call.op = "move"
    /\ Len(snake_call.before.body) = 3
    /\ Len(snake.body) = 4
    /\ Len(snake.cubes) = 4
    /\ snake.direction = "UP"
    /\ snake.cubes[1].position[2] = Lit(260, 1)
    /\ snake.cubes[2].position[2] = Lit(300, 1)

(***************************************************************************)
(* C18.  In main.py the snake never reverses: however set_direction and    *)
(* move calls interleave, the direction a move applies is never the        *)
(* opposite of the direction the move before applied (RIGHT before the     *)
(* first move), so the new head is never the old second cell; and between  *)
(* moves the direction waiting to be applied is never the opposite of the  *)
(* one last applied.                                                       *)
(***************************************************************************)
C18_NeverReverses ==
    SnakeExists =>
        /\ snake.next_direction # Direction_opposite(snake.direction)
        /\ snake_call.op = "move" =>
               /\ snake.direction #
                      Direction_opposite(snake_call.before.direction)
               /\ snake.body[1] # snake_call.before.body[2]

(* The second of two set_direction calls between moves asks for the        *)
(* reversal: the snake moves RIGHT, UP is already waiting, LEFT is asked   *)
(* for and refused.                                                        *)
C18_Witness ==
    /\ SnakeExists
    /\ snake_call.op = "set_direction"
    /\ snake_call.args = <<"LEFT">>
    /\ snake_call.before.direction = "RIGHT"
    /\ snake_call.before.next_direction = "UP"
    /\ snake.next_direction = "UP"
    /\ snake_call.moves > 0

(***************************************************************************)
(* Properties of the two games.                                            *)
(***************************************************************************)
MainGameRuns == game # None
ClassicGameRuns == manager # None

(* The step from the second body cell to the first: the direction the last *)
(* move applied.  The step from the third to the second is the direction   *)
(* the move before applied, or the initial direction when there was none.  *)
StepBetween(from, to) == <<to[1] - from[1], to[2] - from[2]>>
LastApplied(body) == StepBetween(body[2], body[1])
AppliedBefore(body) == StepBetween(body[3], body[2])

(***************************************************************************)
(* C19.  In snake_game.py 180-degree turns are prevented: however          *)
(* change_direction and move calls interleave, the direction a move        *)
(* applies is never the opposite of the direction the move before applied, *)
(* so the head never steps back onto the cell directly behind it.          *)
(***************************************************************************)
C19_NoHalfTurn ==
    ClassicGameRuns =>
        /\ LastApplied(manager.snake.body) #
               <<-AppliedBefore(manager.snake.body)[1],
                 -AppliedBefore(manager.snake.body)[2]>>
        /\ manager.snake.body[1] # manager.snake.body[3]

(***************************************************************************)
(* C20.  The apple is always on an empty cell, in both games: after        *)
(* construction, after a start or restart and after every update, its      *)
(* position is inside the grid and is none of the cells of the snake's     *)
(* body.                                                                   *)
(***************************************************************************)
C20_AppleOnEmptyCell ==
    /\ MainGameRuns =>
           /\ game.apple_pos[1] \in 0..(GRID_WIDTH - 1)
           /\ game.apple_pos[2] \in 0..(GRID_HEIGHT - 1)
           /\ game.apple_pos \notin Cells(snake.body)
    /\ ClassicGameRuns =>
           /\ manager.apple.position[1] \in 0..(GRID_SIZE - 1)
           /\ manager.apple.position[2] \in 0..(GRID_SIZE - 1)
           /\ manager.apple.position \notin Cells(manager.snake.body)

(* An update of main.py in which the snake ate the apple ahead of it and   *)
(* the new apple was spawned in the next cell ahead, the old one now under *)
(* the head.                                                               *)
C20_Witness ==
    /\ MainGameRuns
    /\ loop.at = "handle_input"
    /\ loop.frames > 0
    /\ game.state = "PLAYING"
    /\ game.score = 1
    /\ snake.grow_pending = 1
    /\ snake.body[1] = <<11, 7>>
    /\ game.apple_pos = <<12, 7>>

(***************************************************************************)
(* .jkspec/cli/enforce_cascade_invalidation.py.  A JSON file is the list   *)
(* of its specs that carry a __meta object, in the order the file holds    *)
(* them; a spec is its dot path and its __meta: the done flag ("True",     *)
(* "False", or "None" for anything else) and the references.  A reference  *)
(* names a path, with or without the prefix "specs.".  A file that is      *)
(* missing loads as the empty dict, here the empty list.                   *)
(***************************************************************************)

(* get_spec_meta: the __meta of the spec at spec_path, {} if there is none *)
get_spec_meta(data, spec_path) ==
    IF \E i \in 1..Len(data) : data[i].path = spec_path
    THEN data[CHOOSE i \in 1..Len(data) : data[i].path = spec_path].meta
    ELSE None

(* find_all_specs_with_meta *)
find_all_specs_with_meta(data) ==
    [i \in 1..Len(data) |-> <<data[i].path, data[i].meta>>]

(* check_reference_status *)
check_reference_status(data, reference) ==
    LET meta == get_spec_meta(data, reference)
    IN  IF meta = None THEN <<FALSE, "not_found">>
        ELSE IF meta.done = "True" THEN <<TRUE, "done">>
        ELSE IF meta.done = "False" THEN <<TRUE, "pending">>
        ELSE <<TRUE, "unknown">>

(* The reasons one reference adds in enforce_cascade_for_spec. *)
reasons_for_reference(ref, source_data, project_data) ==
    LET in_source == check_reference_status(source_data, ref)
        in_project == check_reference_status(project_data, ref)
        status == IF in_source[1] THEN in_source[2] ELSE in_project[2]
        location == IF in_source[1] THEN "source.json" ELSE "project.json"
    IN  IF ~in_source[1] /\ ~in_project[1]
        THEN <<(<<"Reference not found", ref, "">>)>>
        ELSE IF status = "pending"
        THEN <<(<<"Reference is pending", ref, location>>)>>
        ELSE IF status = "unknown"
        THEN <<(<<"Reference has unknown status", ref, location>>)>>
        ELSE <<>>

(* The loop over the references in enforce_cascade_for_spec. *)
RECURSIVE reasons_for(_, _, _)
reasons_for(references, source_data, project_data) ==
    IF references = <<>> THEN <<>>
    ELSE reasons_for_reference(Head(references), source_data, project_data)
         \o reasons_for(Tail(references), source_data, project_data)

(* enforce_cascade_for_spec: (should_invalidate, reasons) *)
enforce_cascade_for_spec(spec_meta, source_data, project_data) ==
    IF spec_meta.references = <<>> THEN <<FALSE, <<>> >>
    ELSE LET reasons == reasons_for(spec_meta.references, source_data,
                                    project_data)
         IN  <<spec_meta.done = "True" /\ Len(reasons) > 0, reasons>>

(* set_path(data, f"{spec_path}.__meta.done", False) *)
set_path_done(data, spec_path) ==
    [i \in 1..Len(data) |->
        IF data[i].path = spec_path
        THEN [data[i] EXCEPT !.meta.done = "False"]
        ELSE data[i]]

(* main: the list specs_to_check for one spec path, source first. *)
specs_to_check_one(spec_path, source_data, project_data) ==
    (IF get_spec_meta(source_data, spec_path) # None
     THEN <<[spec_path |-> spec_path,
             spec_meta |-> get_spec_meta(source_data, spec_path),
             file_name |-> "source.json"]>>
     ELSE <<>>)
    \o
    (IF get_spec_meta(project_data, spec_path) # None
     THEN <<[spec_path |-> spec_path,
             spec_meta |-> get_spec_meta(project_data, spec_path),
             file_name |-> "project.json"]>>
     ELSE <<>>)

(* main: the list specs_to_check for all specs, source first. *)
specs_to_check_all(source_data, project_data) ==
    [i \in 1..Len(source_data) |->
        [spec_path |-> source_data[i].path,
         spec_meta |-> source_data[i].meta,
         file_name |-> "source.json"]]
    \o
    [i \in 1..Len(project_data) |->
        [spec_path |-> project_data[i].path,
         spec_meta |-> project_data[i].meta,
         file_name |-> "project.json"]]

(* One round of the loop "for ... in specs_to_check" of main, on the        *)
(* loaded data and the list of invalidated specs so far.                   *)
check_one(todo, at, dry_run) ==
    LET verdict == enforce_cascade_for_spec(todo.spec_meta, at.source_data,
                                            at.project_data)
        writes == verdict[1] /\ ~dry_run
    IN  IF ~verdict[1] THEN at
        ELSE [source_data |->
                  IF writes /\ todo.file_name = "source.json"
                  THEN set_path_done(at.source_data, todo.spec_path)
                  ELSE at.source_data,
              project_data |->
                  IF writes /\ todo.file_name = "project.json"
                  THEN set_path_done(at.project_data, todo.spec_path)
                  ELSE at.project_data,
              invalidated |->
                  Append(at.invalidated,
                         <<todo.spec_path, todo.file_name, verdict[2]>>)]

(* The loop of main that changes the data on every verdict, dry run or not *)
RECURSIVE check_each_AlwaysWrites(_, _, _)
check_each_AlwaysWrites(todo, at, dry_run) ==
    IF todo = <<>> THEN at
    ELSE check_each_AlwaysWrites(Tail(todo), check_one(Head(todo), at, FALSE),
                                 dry_run)

(* The loop "for ... in specs_to_check" of main. *)
RECURSIVE check_each(_, _, _)
check_each(todo, at, dry_run) ==
    IF todo = <<>> THEN at
    ELSE check_each(Tail(todo), check_one(Head(todo), at, dry_run), dry_run)

(* The file names among the invalidated specs. *)
files_to_save(invalidated) ==
    {invalidated[i][2] : i \in 1..Len(invalidated)}

(* main, from the files on disk and the arguments to the files on disk and *)
(* what was reported.  The exit code is 0 when main returns.  A           *)
(* --spec-path that was not given is the empty string.                     *)
main(on_disk, args) ==
    LET source_data == on_disk.source
        project_data == on_disk.project
        todo == IF args.spec_path # ""
                THEN specs_to_check_one(args.spec_path, source_data,
                                        project_data)
                ELSE specs_to_check_all(source_data, project_data)
        loaded == [source_data |-> source_data,
                   project_data |-> project_data,
                   invalidated |-> <<>>]
        stopped == [args |-> args, loaded |-> on_disk, exit |-> 0,
                    checked |-> 0,
                    source_data |-> source_data,
                    project_data |-> project_data,
                    invalidated |-> <<>>, saved |-> {}, files |-> on_disk]
    IN  IF source_data = <<>> /\ project_data = <<>>
        THEN [stopped EXCEPT !.exit = 2]
        ELSE IF todo = <<>> /\ args.spec_path # ""
        THEN [stopped EXCEPT !.exit = 4]
        ELSE CHOOSE ran \in
            {[args |-> args,
              loaded |-> on_disk,
              exit |-> 0,
              checked |-> Len(todo),
              source_data |-> end.source_data,
              project_data |-> end.project_data,
              invalidated |-> end.invalidated,
              saved |-> IF args.dry_run THEN {}
                        ELSE files_to_save(end.invalidated),
              files |->
                  [source |->
                       IF ~args.dry_run /\
                          "source.json" \in files_to_save(end.invalidated)
                       THEN end.source_data ELSE on_disk.source,
                   project |->
                       IF ~args.dry_run /\
                          "project.json" \in files_to_save(end.invalidated)
                       THEN end.project_data ELSE on_disk.project]] :
             end \in {check_each(todo, loaded, args.dry_run)}} : TRUE

(***************************************************************************)
(* The script run again and again on the two files, which start with any   *)
(* of the contents below and change only when the script writes them.      *)
(***************************************************************************)

(* Most references in one __meta. *)
MaxRefs == 1
(* The spec paths, in the order the files hold them. *)
SpecPaths == <<"specs.a", "specs.b", "specs.c">>
DoneValues == {"True", "False", "None"}
References == SeqsUpTo({SpecPaths[i] : i \in 1..Len(SpecPaths)}, MaxRefs)
Metas == [done : DoneValues, references : References]

(* Which paths source.json and project.json hold: all in one file, split   *)
(* between them, one path in both, one path in neither, no spec at all.    *)
Layouts ==
    {<<(<<1, 2, 3>>), (<<>>)>>,
     <<(<<1, 2>>), (<<3>>)>>,
     <<(<<1>>), (<<2, 3>>)>>,
     <<(<<>>), (<<1, 2, 3>>)>>,
     <<(<<1>>), (<<1, 2>>)>>,
     <<(<<1, 2>>), (<<>>)>>,
     <<(<<>>), (<<>>)>>}

(* The files with the given paths and the given __meta for each place. *)
FileWith(paths, metas) ==
    [i \in 1..Len(paths) |-> [path |-> SpecPaths[paths[i]], meta |-> metas[i]]]

InitCascade ==
    /\ InitDefaultCamera
    /\ NoSolids
    /\ NoColors
    /\ snake = None
    /\ plain_snake = None
    /\ snake_call = NoSnakeCall
    /\ game = None
    /\ manager = None
    /\ loop = NoLoop
    /\ trail = <<>>
    /\ cascade = None
    /\ \E layout \in Layouts :
       \E in_source \in [1..Len(layout[1]) -> Metas],
          in_project \in [1..Len(layout[2]) -> Metas] :
           files = [source |-> FileWith(layout[1], in_source),
                    project |-> FileWith(layout[2], in_project)]

(* python3 .jkspec/cli/enforce_cascade_invalidation.py [--dry-run] *)
RunOverAll ==
    /\ \E dry_run \in BOOLEAN :
           cascade' = main(files, [dry_run |-> dry_run, spec_path |-> ""])
    /\ files' = cascade'.files
    /\ UNCHANGED notCascade

(* ... --spec-path <path> [--dry-run] *)
RunOverOne ==
    /\ \E dry_run \in BOOLEAN, k \in 1..Len(SpecPaths) :
           cascade' = main(files, [dry_run |-> dry_run,
                                   spec_path |-> SpecPaths[k]])
    /\ files' = cascade'.files
    /\ UNCHANGED notCascade

NextCascade == RunOverAll \/ RunOverOne

SpecCascade == InitCascade /\ [][NextCascade]_vars

(***************************************************************************)
(* Properties of a snake on its own, of either file.                       *)
(***************************************************************************)
PlainSnakeExists == plain_snake # None

(* Body length and growth still pending of the snake that exists, now and  *)
(* before the last call.                                                   *)
LengthNow == IF SnakeExists THEN Len(snake.body) ELSE Len(plain_snake.body)
PendingNow ==
    IF SnakeExists THEN snake.grow_pending ELSE plain_snake.pending_growth
LengthBefore == Len(snake_call.before.body)
PendingBefore ==
    IF SnakeExists THEN snake_call.before.grow_pending
    ELSE snake_call.before.pending_growth

(***************************************************************************)
(* C21.  Growth is applied on later moves, one cell per grow call, in      *)
(* main.py and in snake_game.py alike: a grow call changes no cell and     *)
(* adds one pending unit; a move with nothing pending keeps the length; a  *)
(* move with growth pending lengthens the body by exactly one and consumes *)
(* one pending unit; so at any time since reset                            *)
(* len(body) + pending == 3 + number of grow calls.                        *)
(***************************************************************************)
C21_GrowthAccounting ==
    /\ LengthNow + PendingNow = 3 + snake_call.grows
    /\ snake_call.op = "grow" =>
           /\ LengthNow = LengthBefore
           /\ PendingNow = PendingBefore + 1
    /\ snake_call.op = "move" /\ PendingBefore = 0 =>
           /\ LengthNow = LengthBefore
           /\ PendingNow = 0
    /\ snake_call.op = "move" /\ PendingBefore > 0 =>
           /\ LengthNow = LengthBefore + 1
           /\ PendingNow = PendingBefore - 1

(* Two grow calls, then a move of the snake_game.py snake that applied the *)
(* first of them: four cells, one unit still pending.                      *)
C21_Witness ==
    /\ PlainSnakeExists
    /\ snake_call.op = "move"
    /\ snake_call.grows = 2
    /\ PendingBefore = 2
    /\ Len(plain_snake.body) = 4
    /\ plain_snake.pending_growth = 1

(***************************************************************************)
(* Properties of enforce_cascade_invalidation.py.                          *)
(***************************************************************************)
HasRun == cascade # None
Completed == HasRun /\ cascade.exit = 0
OverAll == HasRun /\ cascade.args.spec_path = ""
DryRun == HasRun /\ cascade.args.dry_run

(* The specs of both files. *)
AllSpecs(on_disk) == on_disk.source \o on_disk.project

(* A reference of this __meta is not found, is pending or has unknown      *)
(* status in the files.                                                    *)
HasStaleReference(meta, on_disk) ==
    reasons_for(meta.references, on_disk.source, on_disk.project) # <<>>

(* The reports a run over todo makes when every verdict is taken on the    *)
(* data as loaded.                                                         *)
RECURSIVE ReportsOn(_, _)
ReportsOn(todo, on_disk) ==
    IF todo = <<>> THEN <<>>
    ELSE LET verdict == enforce_cascade_for_spec(Head(todo).spec_meta,
                                                 on_disk.source,
                                                 on_disk.project)
         IN  (IF verdict[1]
              THEN <<(<<Head(todo).spec_path, Head(todo).file_name,
                        verdict[2]>>)>>
              ELSE <<>>)
             \o ReportsOn(Tail(todo), on_disk)

Todo(on_disk, args) ==
    IF args.spec_path = ""
    THEN specs_to_check_all(on_disk.source, on_disk.project)
    ELSE specs_to_check_one(args.spec_path, on_disk.source, on_disk.project)

(***************************************************************************)
(* C22.  Cascade invalidation is enforced by one run: when a run over all  *)
(* specs without --dry-run completes, no spec of either file is left with  *)
(* done = true while one of its references is not found, is pending or has *)
(* unknown status, whatever the order of the specs in the files.           *)
(***************************************************************************)
C22_OneRunEnforcesCascade ==
    Completed /\ OverAll /\ ~DryRun =>
        \A i \in 1..Len(AllSpecs(files)) :
            AllSpecs(files)[i].meta.done = "True" =>
                ~HasStaleReference(AllSpecs(files)[i].meta, files)

(***************************************************************************)
(* C23.  With --dry-run the script changes nothing: the files on disk are  *)
(* what they were, no file is written, the data in memory is the data      *)
(* loaded, and the specs reported as "Would invalidate" are those whose    *)
(* verdict on the loaded data is to invalidate.                            *)
(***************************************************************************)
C23_DryRunChangesNothing ==
    DryRun =>
        /\ files = cascade.loaded
        /\ cascade.saved = {}
        /\ cascade.source_data = cascade.loaded.source
        /\ cascade.project_data = cascade.loaded.project
        /\ Completed =>
               cascade.invalidated =
                   ReportsOn(Todo(cascade.loaded, cascade.args),
                             cascade.loaded)

(* A dry run over all specs that reports the first spec alone, although    *)
(* the second, done, refers to the first: its verdict was taken with the   *)
(* first still done.                                                       *)
C23_Witness ==
    /\ DryRun
    /\ OverAll
    /\ Completed
    /\ Len(cascade.invalidated) = 1
    /\ cascade.invalidated[1][1] = "specs.a"
    /\ Len(files.source) = 3
    /\ files.source[1].meta.done = "True"
    /\ files.source[2].meta = [done |-> "True", references |-> <<"specs.a">>]

(***************************************************************************)
(* A perfect game of snake_game.py, with the loop of Apple.spawn followed  *)
(* draw by draw.  The player steers the snake along a route that visits    *)
(* every cell of the grid and comes back to its start: the rows from left  *)
(* to right and right to left in turn, column 0 kept for the way back up;  *)
(* the snake starts on it, heading along it.  random.randint draws the     *)
(* cell on the route ahead of the head, where the snake eats it with its   *)
(* next move, or the cell of the head, which is taken.                     *)
(***************************************************************************)

(* The cell after this one on the player's route. *)
Route(cell) ==
    LET x == cell[1]
        y == cell[2]
    IN  IF x = 0 THEN (IF y > 0 THEN <<0, y - 1>> ELSE <<1, 0>>)
        ELSE IF y % 2 = 0
        THEN (IF x < GRID_SIZE - 1 THEN <<x + 1, y>> ELSE <<x, y + 1>>)
        ELSE IF x > 1 THEN <<x - 1, y>>
        ELSE IF y < GRID_SIZE - 1 THEN <<1, y + 1>> ELSE <<0, y>>

(* The arrow key that turns the snake from its head towards the route. *)
RouteKey(head) ==
    CHOOSE key \in ArrowKeys :
        Direction_value(KeyDirection(key)) = StepBetween(head, Route(head))

(* The draws of random.randint while the head is on this cell. *)
PerfectDraws(head) == {Route(head), head}

(* Draws of one call of Apple.spawn counted; further draws leave the count. *)
MaxTries == 2

(* GameManager.update up to its call of apple.respawn, which it reaches. *)
GameManager_update_to_respawn(self) ==
    [self EXCEPT !.score = @ + 1,
                 !.snake = snake_game_Snake_grow(snake_game_Snake_move(@))]

InitPerfect ==
    /\ InitDefaultCamera
    /\ NoSolids
    /\ NoColors
    /\ snake_call = NoSnakeCall
    /\ plain_snake = None
    /\ NoCascade
    /\ trail = <<>>
    /\ game = None
    /\ snake = None
    /\ manager = GameManager(Route(snake_game_Snake.body[1]))
    /\ loop = [at |-> "handle_input", dt |-> None, running |-> TRUE,
               frames |-> 0, tries |-> 0]

(* running = self.handle_input(), the player pressing the route's key. *)
PerfectHandleInput ==
    /\ manager # None
    /\ loop.at = "handle_input"
    /\ \E done \in {GameManager_handle_input(
                         manager, <<RouteKey(manager.snake.body[1])>>, None)} :
           /\ manager' = done.on
           /\ loop' = [loop EXCEPT !.at = "update", !.running = done.ret]
    /\ UNCHANGED <<snake, snake_call, plain_snake, game, trail, notGame>>

(* self.update(), as far as the call of apple.respawn when there is one. *)
PerfectUpdate ==
    /\ manager # None
    /\ loop.at = "update"
    /\ IF GameManager_update_respawns(manager)
       THEN /\ manager' = GameManager_update_to_respawn(manager)
            /\ loop' = [loop EXCEPT !.at = "spawn", !.tries = 0]
       ELSE /\ manager' = GameManager_update(manager, None)
            /\ loop' = [loop EXCEPT !.at = "handle_input"]
    /\ UNCHANGED <<snake, snake_call, plain_snake, game, trail, notGame>>

(* One round of the loop of Apple.spawn whose draw is on the snake: the     *)
(* loop goes round again.                                                  *)
SpawnRetries ==
    /\ manager # None
    /\ loop.at = "spawn"
    /\ \E position \in PerfectDraws(manager.snake.body[1]) :
           position \in Cells(manager.snake.body)
    /\ loop' = [loop EXCEPT !.tries = Min(@ + 1, MaxTries)]
    /\ UNCHANGED <<manager, snake, snake_call, plain_snake, game, trail,
                   notGame>>

(* The round of the loop of Apple.spawn whose draw is off the snake: spawn  *)
(* returns it, respawn stores it and update returns.                       *)
SpawnReturns ==
    /\ manager # None
    /\ loop.at = "spawn"
    /\ \E position \in PerfectDraws(manager.snake.body[1]) :
           /\ position \notin Cells(manager.snake.body)
           /\ manager' = [manager EXCEPT
                              !.apple = Apple_respawn(@, position)]
    /\ loop' = [loop EXCEPT !.at = "handle_input", !.tries = 0]
    /\ UNCHANGED <<snake, snake_call, plain_snake, game, trail, notGame>>

NextPerfect ==
    PerfectHandleInput \/ PerfectUpdate \/ SpawnRetries \/ SpawnReturns

(* The loop of run goes on, and random choice is fair: a draw that can     *)
(* come up again and again does come up.                                   *)
SpecPerfect ==
    /\ InitPerfect
    /\ [][NextPerfect]_vars
    /\ WF_vars(PerfectHandleInput)
    /\ WF_vars(PerfectUpdate)
    /\ SF_vars(SpawnReturns)

(***************************************************************************)
(* Properties of a run of main.py                                          *)
(***************************************************************************)

(* The game is in a run, past its construction. *)
InRun == MainGameRuns /\ trail # <<>>
JustConstructed == MainGameRuns /\ trail = <<>> /\ loop.at = "handle_input"
Steered == loop.run.frames = MaxSteeredFrames
Straight == loop.run.frames = MaxStraightFrames

(* The arrows of the state diagram: state before, cause, state after. *)
Transitions ==
    {<<"MENU", "K_SPACE", "PLAYING">>,
     <<"PLAYING", "K_ESCAPE", "PAUSED">>,
     <<"PLAYING", "K_p", "PAUSED">>,
     <<"PAUSED", "K_ESCAPE", "PLAYING">>,
     <<"PLAYING", "update", "GAME_OVER">>,
     <<"GAME_OVER", "K_SPACE", "PLAYING">>}

(***************************************************************************)
(* C24.  The state of the main.py game follows the state diagram only: it  *)
(* is MENU after construction; every step of the state, whether an event   *)
(* of handle_input or the update caused it, either keeps the state or is   *)
(* one of MENU -> PLAYING by SPACE, PLAYING -> PAUSED by ESC or P, PAUSED   *)
(* -> PLAYING by ESC, PLAYING -> GAME_OVER by an update that left the      *)
(* snake in collision, GAME_OVER -> PLAYING by SPACE; the steps of a call  *)
(* follow one another and end in the state the game is in.  So MENU is not *)
(* entered again and GAME_OVER is entered from PLAYING only.               *)
(***************************************************************************)
C24_StateDiagram ==
    MainGameRuns =>
        /\ game.state \in GameState
        /\ JustConstructed => game.state = "MENU"
        /\ \A i \in 1..Len(trail) :
               /\ trail[i].from # trail[i].to =>
                      <<trail[i].from, trail[i].by, trail[i].to>>
                          \in Transitions
               /\ trail[i].to = "MENU" => trail[i].from = "MENU"
               /\ trail[i].to = "GAME_OVER" =>
                      trail[i].from \in {"PLAYING", "GAME_OVER"}
               /\ trail[i].from = "PLAYING" /\ trail[i].to = "GAME_OVER" =>
                      Snake_check_collision(snake)
               /\ i < Len(trail) => trail[i].to = trail[i + 1].from
        /\ trail # <<>> => trail[Len(trail)].to = game.state

(* A game started from the menu, ended by a collision and started again    *)
(* with SPACE.                                                             *)
C24_Witness ==
    /\ InRun
    /\ trail[Len(trail)] =
           [from |-> "GAME_OVER", by |-> "K_SPACE", to |-> "PLAYING"]
    /\ game.state = "PLAYING"

(* The step is a call of handle_input, of update. *)
HandlesInput == loop.at = "handle_input" /\ loop'.at = "update"
Updates == loop.at = "update" /\ loop'.at # "update"
(* Every event the call handled was a movement key, and there was one. *)
OnlyMoveKeys(steps) ==
    steps # <<>> /\ \A i \in 1..Len(steps) : steps[i].by \in MoveKeys

(***************************************************************************)
(* C25.  When the game is not being played, update does nothing: update of *)
(* main.py in state MENU, PAUSED or GAME_OVER leaves the game and its      *)
(* snake as they were (body, directions, pending growth, score, speed,     *)
(* move_timer, apple position and apple rotation among them), and a        *)
(* handle_input that finds the game in one of these states and handles     *)
(* movement keys only leaves them as they were too; update of              *)
(* snake_game.py with game_over set leaves the snake, the apple and the    *)
(* score as they were.                                                     *)
(***************************************************************************)
C25_IdleUpdate ==
    [][/\ MainGameRuns /\ Updates /\ game.state # "PLAYING" =>
              /\ game' = game
              /\ snake' = snake
       /\ MainGameRuns /\ HandlesInput /\ game.state # "PLAYING"
              /\ OnlyMoveKeys(trail') =>
              /\ game' = game
              /\ snake' = snake
       /\ ClassicGameRuns /\ Updates /\ manager.game_over =>
              manager' = manager]_vars

(* An update after the game's end, the snake still lying in collision. *)
C25_Witness ==
    /\ InRun
    /\ trail = <<[from |-> "GAME_OVER", by |-> "update", to |-> "GAME_OVER"]>>
    /\ Snake_check_collision(snake)

InGrid(cell) ==
    /\ 0 <= cell[1] /\ cell[1] < 20
    /\ 0 <= cell[2] /\ cell[2] < 15
PairwiseDistinct(body) ==
    \A i, j \in 1..Len(body) : i # j => body[i] # body[j]
(* The update moves the snake: the game is played and the timer runs out. *)
UpdateMoves ==
    /\ Updates
    /\ game.state = "PLAYING"
    /\ Le(FDiv(Lit(1, 1), Lit(game.speed, 1)), FAdd(game.move_timer, loop.dt))
(* The body the move of this update makes. *)
BodyMoved == Snake_moved_body(snake, snake.next_direction)
HeadLeavesGrid == ~InGrid(BodyMoved[1])
HeadHitsBody == \E i \in 2..Len(BodyMoved) : BodyMoved[i] = BodyMoved[1]
(* The apple is the one it was, on its cell. *)
SameApple ==
    /\ game'.apple_pos = game.apple_pos
    /\ game'.apple_sphere.position = game.apple_sphere.position
    /\ game'.apple_sphere.size = game.apple_sphere.size

(***************************************************************************)
(* C26.  While the main.py game is in state PLAYING the cells of the       *)
(* snake's body are pairwise distinct and lie inside the grid, 0 <= x < 20 *)
(* and 0 <= y < 15; and an update whose move puts the new head outside the *)
(* grid or on another cell of the body ends in state GAME_OVER with the    *)
(* score, the speed and the apple as they were.                            *)
(***************************************************************************)
C26_BodyInGridOrGameOver ==
    /\ [](MainGameRuns /\ game.state = "PLAYING" =>
              /\ PairwiseDistinct(snake.body)
              /\ \A i \in 1..Len(snake.body) : InGrid(snake.body[i]))
    /\ [][MainGameRuns /\ UpdateMoves /\ (HeadLeavesGrid \/ HeadHitsBody) =>
              /\ game'.state = "GAME_OVER"
              /\ snake'.body = BodyMoved
              /\ game'.score = game.score
              /\ game'.speed = game.speed
              /\ SameApple]_vars

(* The game ended by the snake, five cells long after two apples, turning  *)
(* into itself.                                                            *)
C26_Witness ==
    /\ InRun
    /\ trail = <<[from |-> "PLAYING", by |-> "update", to |-> "GAME_OVER"]>>
    /\ InGrid(snake.body[1])
    /\ \E i \in 2..Len(snake.body) : snake.body[i] = snake.body[1]
    /\ game.score = 2

(* The game ended by the snake running into the right wall. *)
C26_WallReached ==
    /\ InRun
    /\ trail = <<[from |-> "PLAYING", by |-> "update", to |-> "GAME_OVER"]>>
    /\ snake.body[1][1] = 20

(* The call started a game: a step into PLAYING by SPACE is on the trail   *)
(* it leaves.                                                              *)
Starts(steps) ==
    \E i \in 1..Len(steps) :
        steps[i].by = "K_SPACE" /\ steps[i].from # steps[i].to

C27_FifthApple ==
    /\ InRun
    /\ game.state = "PLAYING"
    /\ game.score = 5
    /\ game.speed = 9

(***************************************************************************)
(* Properties of a perfect game                                            *)
(***************************************************************************)

Spawning == ClassicGameRuns /\ loop.at = "spawn"
FreeCells ==
    {<<x, y>> \in (0..(GRID_SIZE - 1)) \X (0..(GRID_SIZE - 1)) :
        <<x, y>> \notin Cells(manager.snake.body)}

(***************************************************************************)
(* C28.  Apple spawning always terminates: whenever Apple.spawn is called  *)
(* at least one cell of the grid is not occupied by the snake, and so,     *)
(* random choice being fair, the retry loop returns and update completes.  *)
(***************************************************************************)
C28_SpawnTerminates ==
    /\ [](Spawning => FreeCells # {})
    /\ Spawning ~> ~Spawning

=============================================================================
